---- MODULE Spec2Model ----
(***************************************************************************)
(* Model of the SkyTools backend download orchestration                    *)
(* (src/backend/downloads.py): the per-appid status store, the             *)
(* start/cancel handlers and the download worker thread with its source    *)
(* fallback, archive validation, installation and placeholder fallback.    *)
(***************************************************************************)
EXTENDS Integers, Sequences, FiniteSets, TLC

(***************************************************************************)
(* Bounds of the model.                                                    *)
(***************************************************************************)
\* number of concurrently usable worker threads (a finished one is reused)
NumWorkers == 1
\* largest number of enabled sources in api.json
MaxApis == 2
\* number of bytes a streamed chunk carries
ChunkLen == 2
\* number of accepted start requests of one behaviour
MaxStarts == 2
\* number of distinct appids started in one behaviour
MaxAppIds == 1

(***************************************************************************)
(* Program constants.                                                      *)
(***************************************************************************)
\* default success_code of a source
DefaultSuccessCode == 200
\* default unavailable_code of a source
DefaultUnavailableCode == 404
\* number of bytes read for the archive signature
MagicLen == 4

NoneVal == "None"
CancelledByUser == "Cancelled by user"
FallbackApi == "Basic Lua (Fallback)"
Terminal == {"done", "failed", "cancelled"}


(***************************************************************************)
(* int(appid): the argument as the handlers receive it is a sequence of    *)
(* characters; an optional sign followed by at least one digit converts,   *)
(* anything else raises.                                                   *)
(***************************************************************************)
AppIdInputs == {<<"x">>, <<"-", "1">>, <<"1">>}

Digits == {"0", "1", "2", "3", "4", "5", "6", "7", "8", "9"}

DigitVal(c) ==
  CASE c = "0" -> 0 [] c = "1" -> 1 [] c = "2" -> 2 [] c = "3" -> 3
    [] c = "4" -> 4 [] c = "5" -> 5 [] c = "6" -> 6 [] c = "7" -> 7
    [] c = "8" -> 8 [] c = "9" -> 9

RECURSIVE DigitsVal(_)
DigitsVal(s) ==
  IF s = <<>> THEN 0
  ELSE 10 * DigitsVal(SubSeq(s, 1, Len(s) - 1)) + DigitVal(s[Len(s)])

IsDigits(s) == Len(s) > 0 /\ \A k \in 1..Len(s) : s[k] \in Digits

ToInt(s) ==
  IF IsDigits(s) THEN [ok |-> TRUE, val |-> DigitsVal(s)]
  ELSE IF Len(s) > 1 /\ s[1] = "-" /\ IsDigits(Tail(s))
       THEN [ok |-> TRUE, val |-> 0 - DigitsVal(Tail(s))]
       ELSE [ok |-> FALSE, val |-> 0]

AppIds == {ToInt(s).val : s \in {t \in AppIdInputs : ToInt(t).ok}}

(***************************************************************************)
(* api.json and load_api_manifest.                                         *)
(***************************************************************************)
ApiNames == <<"A", "B", "C", "D">>

\* the i-th entry of api.json: even entries keep the default success code,
\* odd entries configure 201
ApiEntry(i) ==
  [name |-> ApiNames[i], enabled |-> TRUE,
   success_code |-> DefaultSuccessCode + (i % 2),
   unavailable_code |-> DefaultUnavailableCode]

DisabledEntry ==
  [name |-> "Z", enabled |-> FALSE,
   success_code |-> DefaultSuccessCode,
   unavailable_code |-> DefaultUnavailableCode]

\* api.json with n enabled sources and a disabled one in front of them
ApiJson(n) == <<DisabledEntry>> \o [i \in 1..n |-> ApiEntry(i)]

ApiJsonFiles == {ApiJson(n) : n \in 0..MaxApis}

RECURSIVE SelectEnabled(_)
SelectEnabled(s) ==
  IF s = <<>> THEN <<>>
  ELSE IF Head(s).enabled THEN <<Head(s)>> \o SelectEnabled(Tail(s))
       ELSE SelectEnabled(Tail(s))

load_api_manifest(json) == SelectEnabled(json)

(***************************************************************************)
(* Responses of a source: a status code and, for a streamed body, bytes.   *)
(***************************************************************************)
ResponseCodes == {200, 201, 404}

ZipLocal == <<80, 75, 3, 4>>
ZipEmpty == <<80, 75, 5, 6>>
ZipSpanned == <<80, 75, 7, 8>>
ZipSignatures == {ZipLocal, ZipEmpty, ZipSpanned}

Bodies == {ZipLocal, ZipEmpty, ZipSpanned, <<60, 104, 116, 109>>, <<80, 75, 3>>}

Min(a, b) == IF a < b THEN a ELSE b

\* fh.read(4)
ReadMagic(data) == SubSeq(data, 1, Min(MagicLen, Len(data)))

\* a signature check that looks at the two bytes "PK" only
IsZipMagicPrefix(magic) == Len(magic) >= 2 /\ SubSeq(magic, 1, 2) = <<80, 75>>

IsZipMagic(magic) == magic \in ZipSignatures

(***************************************************************************)
(* The status store: DOWNLOAD_STATE maps an appid to a dict; a dict is a   *)
(* function from the keys it holds to their values, the empty dict stands  *)
(* for "no record".                                                        *)
(***************************************************************************)
EmptyDict == [k \in {} |-> NoneVal]

DictUpdate(state, update) ==
  [k \in (DOMAIN state) \cup (DOMAIN update) |->
     IF k \in DOMAIN update THEN update[k] ELSE state[k]]

DictGet(state, key, default) ==
  IF key \in DOMAIN state THEN state[key] ELSE default

DestPath(appid) == <<"temp_dl", appid>>
LuaPath(appid) == <<"stplug-in", appid>>

NoFile == [exists |-> FALSE, data |-> <<>>]

VARIABLES
  api_json,        \* content of api.json (the entry list)
  DOWNLOAD_STATE,  \* appid -> status dict
  temp_zip,        \* appid -> temp_dl/<appid>.zip
  lua_file,        \* appid -> "absent" | "zip" | "basic": stplug-in/<appid>.lua
  loaded_apps,     \* roster file: sequence of appids, one per line
  pc,              \* worker -> position in _download_zip_for_app
  wk,              \* worker -> its locals: appid, i (index of the source of
                   \*   the for loop), code, stream (bytes of the response
                   \*   body not yet yielded), read, magic
  w_tried,         \* worker -> indices of the sources it sent a request to
  w_cancel,        \* worker -> "none" | "early" | "late": a cancel request
                   \*   set the flag during this run (early: before any byte
                   \*   of the run was written)
  w_wrote,         \* worker -> this run has written a byte to temp_zip
  c_pc,            \* cancel handler: "idle" | "set" (between lines 772, 775)
  c_appid,         \* cancel handler: its appid
  c_fresh,         \* cancel handler: no start for c_appid since its read
  starts,          \* number of accepted start requests
  r_pc,            \* appid -> position of its worker in lines 603-610
  r_lines,         \* appid -> the lines _append_loaded_app has read
  r_mark,          \* appid -> "none" | "raised" | "removed": the roster
                   \*   write of the appid raised, or its line was removed
                   \*   by a removal or a dismissal
  fix_log,         \* appid -> <install path>/luatools-fix-log-<appid>.log
  install_files,   \* the files of the install directory, by their path lines
  FIX_DOWNLOAD_STATE, \* appid -> status dict of apply-fix
  fix_zip,         \* appid -> temp_dl/fix_<appid>.zip
  f_pc,            \* position of the fix worker in _download_and_extract_fix
  fk,              \* locals of the fix worker
  fc_pc,           \* cancel-fix handler: "idle" | "set" (lines 298, 301)
  fc_appid,        \* cancel-fix handler: its appid
  f_starts,        \* number of accepted apply-fix requests
  f_cancel,        \* appid -> "none", or the status in progress that the
                   \*   last write of cancel-fix replaced since the last apply
  UNFIX_STATE,     \* appid -> status dict of unfix
  u_pc,            \* position of the unfix worker in _unfix_game_worker
  uk,              \* locals of the unfix worker
  u_starts,        \* number of accepted unfix requests
  fixes_out,       \* what get_installed_fixes returned last
  last_call,       \* the last call of apply_game_fix, unfix_game or
                   \*   _process_and_install_lua: its arguments and what it
                   \*   returned or did
  DOWNLOAD_LOCK,   \* "free", or the thread that holds the lock of the map
  setter,          \* a thread in _set_download_state and its locals
  getter,          \* a thread that calls _get_download_state and keeps
                   \*   what it got
  merged           \* the map as the last completed merge left it

\* the worker threads of a behaviour
Workers == DOMAIN pc

\* the variables of the download orchestration
downloads == <<api_json, DOWNLOAD_STATE, temp_zip, lua_file, loaded_apps, pc,
               wk, w_tried, w_cancel, w_wrote, c_pc, c_appid, c_fresh, starts>>

\* the worker tails that record their installation in the roster
rosters == <<r_pc, r_lines, r_mark>>

\* the install directory of the game
install == <<fix_log, install_files>>

\* apply-fix: its status store, its worker and its cancel handler
fixers == <<FIX_DOWNLOAD_STATE, fix_zip, f_pc, fk, fc_pc, fc_appid, f_starts,
            f_cancel>>

\* unfix and the listing of installed fixes
unfixers == <<UNFIX_STATE, u_pc, uk, u_starts, fixes_out>>

\* what the download orchestration leaves alone
\* the threads that use the status map directly
stores == <<DOWNLOAD_LOCK, setter, getter, merged>>

elsewhere == <<rosters, install, fixers, unfixers, last_call, stores>>

vars == <<downloads, elsewhere>>

history == <<w_tried, w_cancel, w_wrote>>
disk == <<temp_zip, lua_file, loaded_apps>>
canceller == <<c_pc, c_appid, c_fresh>>

\* _set_download_state(appid, update)
_set_download_state(appid, update) ==
  DOWNLOAD_STATE' =
    [DOWNLOAD_STATE EXCEPT ![appid] = DictUpdate(DOWNLOAD_STATE[appid], update)]

\* _get_download_state(appid)
_get_download_state(appid) == DOWNLOAD_STATE[appid]

\* _is_download_cancelled(appid)
_is_download_cancelled(appid) ==
  DictGet(_get_download_state(appid), "status", NoneVal) = "cancelled"

\* the locals of a worker thread that has read none of them yet
NewFrame(appid) ==
  [appid |-> appid, i |-> 0, code |-> 0, stream |-> <<>>, read |-> 0, magic |-> <<>>]

\* no worker tail of the roster is running
RostersIdle ==
  /\ r_pc = <<>>
  /\ r_lines = <<>>
  /\ r_mark = <<>>

\* the locals of a fix worker and of an unfix worker that is not running
NoFixFrame == [appid |-> 0]
NoUnfixFrame == [appid |-> 0]

\* no apply-fix was requested
FixersIdle ==
  /\ FIX_DOWNLOAD_STATE = [a \in AppIds |-> EmptyDict]
  /\ fix_zip = [a \in AppIds |-> NoFile]
  /\ f_pc = "idle"
  /\ fk = NoFixFrame
  /\ fc_pc = "idle"
  /\ fc_appid = 0
  /\ f_starts = 0
  /\ f_cancel = [a \in AppIds |-> "none"]

\* fixes_out before get_installed_fixes has returned anything
NoFixesReply == [success |-> FALSE, fixes |-> <<>>]

\* no unfix was requested and nothing was listed
UnfixersIdle ==
  /\ UNFIX_STATE = [a \in AppIds |-> EmptyDict]
  /\ u_pc = "idle"
  /\ uk = NoUnfixFrame
  /\ u_starts = 0
  /\ fixes_out = NoFixesReply

\* neither apply_game_fix nor unfix_game was called
NoCall == [handler |-> "none"]
NoRequest == last_call = NoCall

\* no thread is inside _set_download_state and none has polled
StoresIdle ==
  /\ DOWNLOAD_LOCK = "free"
  /\ setter = [pc |-> "idle", merges |-> 0]
  /\ getter = [polls |-> 0]
  /\ merged = EmptyDict

\* a game without a fix
NoFixInstalled ==
  /\ fix_log = [a \in AppIds |-> NoFile]
  /\ install_files = {}

Init ==
  /\ api_json \in ApiJsonFiles
  /\ DOWNLOAD_STATE = [a \in AppIds |-> EmptyDict]
  /\ temp_zip = [a \in AppIds |-> NoFile]
  /\ lua_file = [a \in AppIds |-> "absent"]
  /\ loaded_apps = <<>>
  /\ pc = [w \in 1..NumWorkers |-> "idle"]
  /\ wk = [w \in 1..NumWorkers |-> NewFrame(0)]
  /\ w_tried = [w \in 1..NumWorkers |-> <<>>]
  /\ w_cancel = [w \in 1..NumWorkers |-> "none"]
  /\ w_wrote = [w \in 1..NumWorkers |-> FALSE]
  /\ c_pc = "idle"
  /\ c_appid = 0
  /\ c_fresh = FALSE
  /\ starts = 0
  /\ RostersIdle
  /\ NoFixInstalled
  /\ FixersIdle
  /\ UnfixersIdle
  /\ NoRequest
  /\ StoresIdle

(***************************************************************************)
(* The handlers.                                                           *)
(***************************************************************************)
Active(w) == pc[w] \notin {"idle", "end"}

\* the thread a start request runs its worker on: the least one not running
FreeWorker == CHOOSE w \in Workers : ~Active(w) /\ \A v \in Workers : ~Active(v) => w <= v

\* the appids that have a status dict
Started == {a \in AppIds : DOMAIN DOWNLOAD_STATE[a] # {}}

\* the JSON replies of the handlers
InvalidAppid == [success |-> FALSE, error |-> "Invalid appid"]
Success == [success |-> TRUE]
NothingToCancelReply == [success |-> TRUE, message |-> "Nothing to cancel"]

\* start_add_via_skytools(appid), lines 662-665 and 671: what it returns
start_reply(inp) == IF ToInt(inp).ok THEN Success ELSE InvalidAppid

\* a start request that leaves the status of an id that has a running worker
start_add_keeping_status(inp) ==
  LET r == ToInt(inp) IN
  IF ~r.ok
  THEN UNCHANGED vars
  ELSE /\ starts < MaxStarts
       /\ r.val \in Started \/ Cardinality(Started) < MaxAppIds
       /\ \E w \in Workers : ~Active(w)
       /\ IF \E w \in Workers : Active(w) /\ wk[w].appid = r.val
          THEN UNCHANGED DOWNLOAD_STATE
          ELSE _set_download_state(r.val, [status |-> "queued", bytesRead |-> 0, totalBytes |-> 0])
       /\ pc' = [pc EXCEPT ![FreeWorker] = "load"]
       /\ wk' = [wk EXCEPT ![FreeWorker] = NewFrame(r.val)]
       /\ w_tried' = [w_tried EXCEPT ![FreeWorker] = <<>>]
       /\ w_wrote' = [w_wrote EXCEPT ![FreeWorker] = FALSE]
       /\ w_cancel' = [w_cancel EXCEPT ![FreeWorker] = "none"]
       /\ c_fresh' = (c_fresh /\ c_appid # r.val)
       /\ starts' = starts + 1
       /\ UNCHANGED <<elsewhere, api_json, disk, c_pc, c_appid>>

\* start_add_via_skytools(appid), lines 661-671: a rejected request changes
\* nothing; an accepted one writes the status and starts the thread
start_add_via_skytools(inp) ==
  LET r == ToInt(inp) IN
  IF ~r.ok
  THEN UNCHANGED vars
  ELSE /\ starts < MaxStarts
       /\ r.val \in Started \/ Cardinality(Started) < MaxAppIds
       /\ \E w \in Workers : ~Active(w)
       /\ _set_download_state(r.val, [status |-> "queued", bytesRead |-> 0, totalBytes |-> 0])
       /\ pc' = [pc EXCEPT ![FreeWorker] = "load"]
       /\ wk' = [wk EXCEPT ![FreeWorker] = NewFrame(r.val)]
       /\ w_tried' = [w_tried EXCEPT ![FreeWorker] = <<>>]
       /\ w_wrote' = [w_wrote EXCEPT ![FreeWorker] = FALSE]
       /\ w_cancel' = [w_cancel EXCEPT ![FreeWorker] = "none"]
       /\ c_fresh' = (c_fresh /\ c_appid # r.val)
       /\ starts' = starts + 1
       /\ UNCHANGED <<elsewhere, api_json, disk, c_pc, c_appid>>

\* a handler that treats done alone as nothing to cancel
NothingToCancelDoneOnly == {"done"}

\* the statuses for which cancel_add_via_skytools has nothing to cancel
NothingToCancel == {"done", "failed"}

\* cancel_add_via_skytools(appid), line 772 on the dict read at line 771
HasNothingToCancel(state) ==
  DOMAIN state = {} \/ DictGet(state, "status", NoneVal) \in NothingToCancel

\* cancel_add_via_skytools(appid): what it returns for the dict it read
cancel_reply(inp, state) ==
  IF ~ToInt(inp).ok THEN InvalidAppid
  ELSE IF HasNothingToCancel(state) THEN NothingToCancelReply
  ELSE Success

\* cancel_add_via_skytools(appid), lines 765-773: the conversion and the
\* read; it returns at once or goes on to the write
cancel_add_via_skytools(inp) ==
  LET r == ToInt(inp) IN
  /\ c_pc = "idle"
  /\ IF ~r.ok
     THEN UNCHANGED canceller
     ELSE IF HasNothingToCancel(_get_download_state(r.val))
          THEN UNCHANGED canceller
          ELSE /\ c_pc' = "set"
               /\ c_appid' = r.val
               /\ c_fresh' = TRUE
  /\ UNCHANGED <<elsewhere, api_json, DOWNLOAD_STATE, disk, pc, wk, history, starts>>

\* the mark a cancel request leaves on a run of the appid that is in progress
CancelMark(w) ==
  IF Active(w) /\ wk[w].appid = c_appid /\ c_fresh /\ w_cancel[w] = "none"
  THEN (IF w_wrote[w] THEN "late" ELSE "early")
  ELSE w_cancel[w]

\* cancel_add_via_skytools(appid), lines 775-777: the write and the reply
cancel_set ==
  /\ c_pc = "set"
  /\ _set_download_state(c_appid, [status |-> "cancelled", error |-> CancelledByUser])
  /\ w_cancel' = [w \in Workers |-> CancelMark(w)]
  /\ c_pc' = "idle"
  /\ c_appid' = 0
  /\ c_fresh' = FALSE
  /\ UNCHANGED <<elsewhere, api_json, disk, pc, wk, w_tried, w_wrote, starts>>

(***************************************************************************)
(* The worker thread: _download_zip_for_app(appid).  One action is one     *)
(* access to the status store or to the disk, with the local computation   *)
(* that follows it.  A local is cleared once the code does not read it     *)
(* again before assigning it.                                              *)
(***************************************************************************)
apis == load_api_manifest(api_json)

Goto(w, label) == pc' = [pc EXCEPT ![w] = label]

\* the worker stays in its frame and moves to label
Step(w, label) == Goto(w, label) /\ UNCHANGED wk

\* the worker returns
Return(w) == Goto(w, "end") /\ wk' = [wk EXCEPT ![w] = NewFrame(wk[w].appid)]

\* the position after "continue" at source i
LoopPc(i) == IF i < Len(apis) THEN "try" ELSE "fallback"

\* "continue": on to the next source of the for loop, or out of the loop
Continue(w) ==
  /\ wk' = [wk EXCEPT ![w] = [NewFrame(wk[w].appid) EXCEPT !.i = wk[w].i + 1]]
  /\ Goto(w, LoopPc(wk[w].i))

\* lines 509-521
W_load(w) ==
  /\ pc[w] = "load"
  /\ IF apis = <<>>
     THEN /\ _set_download_state(wk[w].appid, [status |-> "failed", error |-> "No APIs available"])
          /\ Return(w)
     ELSE /\ _set_download_state(wk[w].appid,
                [status |-> "checking", currentApi |-> NoneVal, bytesRead |-> 0,
                 totalBytes |-> 0, dest |-> DestPath(wk[w].appid)])
          /\ wk' = [wk EXCEPT ![w].i = 1]
          /\ Goto(w, "try")
  /\ UNCHANGED <<elsewhere, api_json, disk, history, canceller, starts>>

\* a loop head that does not write the status
W_try_silent(w) ==
  /\ pc[w] = "try"
  /\ Step(w, "precheck")
  /\ UNCHANGED <<elsewhere, api_json, DOWNLOAD_STATE, disk, history, canceller, starts>>

\* lines 523-531
W_try(w) ==
  /\ pc[w] = "try"
  /\ _set_download_state(wk[w].appid,
        [status |-> "checking", currentApi |-> apis[wk[w].i].name,
         bytesRead |-> 0, totalBytes |-> 0])
  /\ Step(w, "precheck")
  /\ UNCHANGED <<elsewhere, api_json, disk, history, canceller, starts>>

\* lines 535-537
W_precheck(w) ==
  /\ pc[w] = "precheck"
  /\ IF _is_download_cancelled(wk[w].appid)
     THEN Return(w)
     ELSE Step(w, "request")
  /\ UNCHANGED <<elsewhere, api_json, DOWNLOAD_STATE, disk, history, canceller, starts>>

\* a branch that tests the unavailable code only
CodeBranchUnavailableOnly(code, api) ==
  IF code = api.unavailable_code THEN "continue" ELSE "download"

\* the branch a response code takes at lines 541-544
CodeBranch(code, api) ==
  IF code = api.unavailable_code THEN "continue"
  ELSE IF code # api.success_code THEN "continue"
  ELSE "download"

\* lines 538-546: the request; it fails (a network error is an Exception, a
\* RuntimeError is caught apart) or answers with a status code and a body
W_request(w) ==
  /\ pc[w] = "request"
  /\ w_tried' = [w_tried EXCEPT ![w] = Append(w_tried[w], wk[w].i)]
  /\ \/ /\ Continue(w)
        /\ UNCHANGED DOWNLOAD_STATE
     \/ /\ Step(w, "runtime_error")
        /\ UNCHANGED DOWNLOAD_STATE
     \/ \E code \in ResponseCodes, body \in Bodies :
          IF CodeBranch(code, apis[wk[w].i]) = "continue"
          THEN /\ Continue(w)
               /\ UNCHANGED DOWNLOAD_STATE
          ELSE /\ _set_download_state(wk[w].appid,
                     [status |-> "downloading", bytesRead |-> 0,
                      totalBytes |-> Len(body)])
               /\ wk' = [wk EXCEPT ![w].code = code, ![w].stream = body]
               /\ Goto(w, "open")
  /\ UNCHANGED <<elsewhere, api_json, disk, w_cancel, w_wrote, canceller, starts>>

\* lines 638-640: a RuntimeError other than "cancelled"
W_runtime_error(w) ==
  /\ pc[w] = "runtime_error"
  /\ _set_download_state(wk[w].appid, [status |-> "failed", error |-> "runtime error"])
  /\ Return(w)
  /\ UNCHANGED <<elsewhere, api_json, disk, history, canceller, starts>>

\* line 547: open(dest_path, "wb") creates or truncates the file, or fails
W_open(w) ==
  /\ pc[w] = "open"
  /\ \/ /\ temp_zip' = [temp_zip EXCEPT ![wk[w].appid] = [exists |-> TRUE, data |-> <<>>]]
        /\ Step(w, "stream")
     \/ /\ Continue(w)
        /\ UNCHANGED temp_zip
  /\ UNCHANGED <<elsewhere, api_json, DOWNLOAD_STATE, lua_file, loaded_apps, history,
                 canceller, starts>>

\* lines 548-553 and 561-565: the next chunk with the check before it is
\* written, the end of the stream with the check after it, or a network
\* error while bytes of the body are outstanding (an empty chunk changes
\* nothing)
W_stream(w) ==
  /\ pc[w] = "stream"
  /\ \/ wk[w].stream # <<>> /\ Continue(w)
     \/ IF _is_download_cancelled(wk[w].appid)
        THEN Step(w, "cancel_cleanup")
        ELSE IF wk[w].stream = <<>> THEN Step(w, "validate")
             ELSE Step(w, "chunk_write")
  /\ UNCHANGED <<elsewhere, api_json, DOWNLOAD_STATE, disk, history, canceller, starts>>

\* lines 554-556: output.write(chunk), then the read of bytesRead
W_chunk_write(w) ==
  LET n == Min(ChunkLen, Len(wk[w].stream))
      chunk == SubSeq(wk[w].stream, 1, n)
      old == temp_zip[wk[w].appid]
  IN
  /\ pc[w] = "chunk_write"
  /\ temp_zip' = [temp_zip EXCEPT ![wk[w].appid] =
                    [exists |-> TRUE, data |-> old.data \o chunk]]
  /\ wk' = [wk EXCEPT
              ![w].stream = SubSeq(wk[w].stream, n + 1, Len(wk[w].stream)),
              ![w].read = DictGet(_get_download_state(wk[w].appid), "bytesRead", 0) + n]
  /\ w_wrote' = [w_wrote EXCEPT ![w] = TRUE]
  /\ Goto(w, "chunk_set")
  /\ UNCHANGED <<elsewhere, api_json, DOWNLOAD_STATE, lua_file, loaded_apps, w_tried,
                 w_cancel, canceller, starts>>

\* a counter that advances by the chunk size of the stream
W_chunk_set_by_size(w) ==
  /\ pc[w] = "chunk_set"
  /\ _set_download_state(wk[w].appid,
        [bytesRead |-> DictGet(_get_download_state(wk[w].appid), "bytesRead", 0) + ChunkLen])
  /\ wk' = [wk EXCEPT ![w].read = 0]
  /\ Goto(w, "chunk_recheck")
  /\ UNCHANGED <<elsewhere, api_json, disk, history, canceller, starts>>

\* line 557
W_chunk_set(w) ==
  /\ pc[w] = "chunk_set"
  /\ _set_download_state(wk[w].appid, [bytesRead |-> wk[w].read])
  /\ wk' = [wk EXCEPT ![w].read = 0]
  /\ Goto(w, "chunk_recheck")
  /\ UNCHANGED <<elsewhere, api_json, disk, history, canceller, starts>>

\* lines 558-560
W_chunk_recheck(w) ==
  /\ pc[w] = "chunk_recheck"
  /\ IF _is_download_cancelled(wk[w].appid)
     THEN Step(w, "cancel_cleanup")
     ELSE Step(w, "stream")
  /\ UNCHANGED <<elsewhere, api_json, DOWNLOAD_STATE, disk, history, canceller, starts>>

\* lines 629-637: the handler of RuntimeError("cancelled")
W_cancel_cleanup(w) ==
  /\ pc[w] = "cancel_cleanup"
  /\ temp_zip' = [temp_zip EXCEPT ![wk[w].appid] = NoFile]
  /\ Return(w)
  /\ UNCHANGED <<elsewhere, api_json, DOWNLOAD_STATE, lua_file, loaded_apps, history,
                 canceller, starts>>

\* a signature check for which an invalid archive is fatal
W_validate_fatal(w) ==
  LET file == temp_zip[wk[w].appid]
      magic == ReadMagic(file.data)
  IN
  /\ pc[w] = "validate"
  /\ IF ~file.exists \/ ~IsZipMagic(magic)
     THEN /\ _set_download_state(wk[w].appid,
                [status |-> "failed", error |-> "Invalid archive"])
          /\ Return(w)
          /\ temp_zip' = [temp_zip EXCEPT ![wk[w].appid] = NoFile]
     ELSE /\ wk' = [wk EXCEPT ![w].magic = magic]
          /\ Goto(w, "proc_check")
          /\ UNCHANGED <<temp_zip, DOWNLOAD_STATE>>
  /\ UNCHANGED <<elsewhere, api_json, lua_file, loaded_apps, history, canceller, starts>>

\* lines 567-592: the signature check of the downloaded file
W_validate(w) ==
  LET file == temp_zip[wk[w].appid]
      magic == ReadMagic(file.data)
  IN
  /\ pc[w] = "validate"
  /\ IF ~file.exists
     THEN /\ Continue(w)
          /\ UNCHANGED temp_zip
     ELSE IF ~IsZipMagic(magic)
          THEN /\ temp_zip' = [temp_zip EXCEPT ![wk[w].appid] = NoFile]
               /\ Continue(w)
          ELSE /\ wk' = [wk EXCEPT ![w].magic = magic]
               /\ Goto(w, "proc_check")
               /\ UNCHANGED temp_zip
  /\ UNCHANGED <<elsewhere, api_json, DOWNLOAD_STATE, lua_file, loaded_apps, history,
                 canceller, starts>>

\* lines 594-597: the check before processing
W_proc_check(w) ==
  /\ pc[w] = "proc_check"
  /\ IF _is_download_cancelled(wk[w].appid)
     THEN Step(w, "install_cancelled")
     ELSE Step(w, "proc_set")
  /\ UNCHANGED <<elsewhere, api_json, DOWNLOAD_STATE, disk, history, canceller,
                 starts>>

\* line 598
W_proc_set(w) ==
  /\ pc[w] = "proc_set"
  /\ _set_download_state(wk[w].appid, [status |-> "processing"])
  /\ wk' = [wk EXCEPT ![w].magic = <<>>]
  /\ Goto(w, "lua_check1")
  /\ UNCHANGED <<elsewhere, api_json, disk, history, canceller, starts>>

\* _process_and_install_lua lines 360-393: the first check, then the target
\* directory and the archive are opened, which succeeds or raises (the
\* depotcache extraction swallows its own exceptions, its cancellation
\* check included)
W_lua_check1(w) ==
  /\ pc[w] = "lua_check1"
  /\ IF _is_download_cancelled(wk[w].appid)
     THEN Step(w, "install_cancelled")
     ELSE \/ Step(w, "lua_check2")
          \/ Step(w, "install_failed")
  /\ UNCHANGED <<elsewhere, api_json, DOWNLOAD_STATE, disk, history, canceller,
                 starts>>

\* _process_and_install_lua lines 395-420: the second check, then an entry
\* <digits>.lua is chosen and transformed, or none is found
W_lua_check2(w) ==
  /\ pc[w] = "lua_check2"
  /\ IF _is_download_cancelled(wk[w].appid)
     THEN Step(w, "install_cancelled")
     ELSE \/ Step(w, "lua_installing")
          \/ Step(w, "install_failed")
  /\ UNCHANGED <<elsewhere, api_json, DOWNLOAD_STATE, disk, history, canceller,
                 starts>>

\* _process_and_install_lua line 422
W_lua_installing(w) ==
  /\ pc[w] = "lua_installing"
  /\ _set_download_state(wk[w].appid, [status |-> "installing"])
  /\ Step(w, "lua_check3")
  /\ UNCHANGED <<elsewhere, api_json, disk, history, canceller, starts>>

\* _process_and_install_lua lines 424-425
W_lua_check3(w) ==
  /\ pc[w] = "lua_check3"
  /\ IF _is_download_cancelled(wk[w].appid)
     THEN Step(w, "install_cancelled")
     ELSE Step(w, "lua_write")
  /\ UNCHANGED <<elsewhere, api_json, DOWNLOAD_STATE, disk, history, canceller,
                 starts>>

\* _process_and_install_lua lines 426-440: <appid>.lua is written, or the
\* write raises
W_lua_write(w) ==
  /\ pc[w] = "lua_write"
  /\ \/ /\ lua_file' = [lua_file EXCEPT ![wk[w].appid] = "zip"]
        /\ Step(w, "lua_installed")
     \/ /\ Step(w, "install_failed")
        /\ UNCHANGED lua_file
  /\ UNCHANGED <<elsewhere, api_json, DOWNLOAD_STATE, temp_zip, loaded_apps, history, canceller, starts>>

\* _process_and_install_lua line 441
W_lua_installed(w) ==
  /\ pc[w] = "lua_installed"
  /\ _set_download_state(wk[w].appid, [installedPath |-> LuaPath(wk[w].appid)])
  /\ Step(w, "lua_rmzip")
  /\ UNCHANGED <<elsewhere, api_json, disk, history, canceller, starts>>

\* _process_and_install_lua lines 443-455: os.remove(zip_path)
W_lua_rmzip(w) ==
  /\ pc[w] = "lua_rmzip"
  /\ temp_zip' = [temp_zip EXCEPT ![wk[w].appid] = NoFile]
  /\ Step(w, "post_check")
  /\ UNCHANGED <<elsewhere, api_json, DOWNLOAD_STATE, lua_file, loaded_apps, history, canceller, starts>>

\* lines 600-602
W_post_check(w) ==
  /\ pc[w] = "post_check"
  /\ IF _is_download_cancelled(wk[w].appid)
     THEN Step(w, "install_cancelled")
     ELSE Step(w, "roster")
  /\ UNCHANGED <<elsewhere, api_json, DOWNLOAD_STATE, disk, history, canceller,
                 starts>>

RECURSIVE WithoutApp(_, _)
WithoutApp(lines, appid) ==
  IF lines = <<>> THEN <<>>
  ELSE IF Head(lines) = appid THEN WithoutApp(Tail(lines), appid)
       ELSE <<Head(lines)>> \o WithoutApp(Tail(lines), appid)

\* _append_loaded_app(appid, name), lines 128-141: the roster with the line
\* of the appid replaced, or unchanged when reading or writing it raised
_append_loaded_app(appid) ==
  \/ loaded_apps' = Append(WithoutApp(loaded_apps, appid), appid)
  \/ UNCHANGED loaded_apps

\* lines 603-608
W_roster(w) ==
  /\ pc[w] = "roster"
  /\ _append_loaded_app(wk[w].appid)
  /\ Step(w, "set_done")
  /\ UNCHANGED <<elsewhere, api_json, DOWNLOAD_STATE, temp_zip, lua_file, history, canceller, starts>>

\* lines 609-610
W_set_done(w) ==
  /\ pc[w] = "set_done"
  /\ _set_download_state(wk[w].appid,
        [status |-> "done", success |-> TRUE, api |-> apis[wk[w].i].name])
  /\ Return(w)
  /\ UNCHANGED <<elsewhere, api_json, disk, history, canceller, starts>>

\* lines 611-619: RuntimeError("cancelled") out of the processing block
W_install_cancelled(w) ==
  /\ pc[w] = "install_cancelled"
  /\ temp_zip' = [temp_zip EXCEPT ![wk[w].appid] = NoFile]
  /\ Return(w)
  /\ UNCHANGED <<elsewhere, api_json, DOWNLOAD_STATE, lua_file, loaded_apps, history, canceller, starts>>

\* lines 620-623: any other exception out of the processing block
W_install_failed(w) ==
  /\ pc[w] = "install_failed"
  /\ _set_download_state(wk[w].appid, [status |-> "failed", error |-> "Processing failed"])
  /\ Step(w, "install_failed_rm")
  /\ UNCHANGED <<elsewhere, api_json, disk, history, canceller, starts>>

\* lines 624-628
W_install_failed_rm(w) ==
  /\ pc[w] = "install_failed_rm"
  /\ temp_zip' = [temp_zip EXCEPT ![wk[w].appid] = NoFile]
  /\ Return(w)
  /\ UNCHANGED <<elsewhere, api_json, DOWNLOAD_STATE, lua_file, loaded_apps, history, canceller, starts>>

(***************************************************************************)
(* The placeholder fallback: _create_basic_lua_file and lines 645-658.     *)
(***************************************************************************)
\* _create_basic_lua_file lines 462-470: the first check, then the Steam
\* path and the target directory, which may raise
W_fallback(w) ==
  /\ pc[w] = "fallback"
  /\ IF _is_download_cancelled(wk[w].appid)
     THEN Step(w, "fallback_failed")
     ELSE \/ Step(w, "basic_installing")
          \/ Step(w, "fallback_failed")
  /\ UNCHANGED <<elsewhere, api_json, DOWNLOAD_STATE, disk, history, canceller,
                 starts>>

\* _create_basic_lua_file line 488
W_basic_installing(w) ==
  /\ pc[w] = "basic_installing"
  /\ _set_download_state(wk[w].appid, [status |-> "installing"])
  /\ Step(w, "basic_check")
  /\ UNCHANGED <<elsewhere, api_json, disk, history, canceller, starts>>

\* _create_basic_lua_file lines 491-492
W_basic_check(w) ==
  /\ pc[w] = "basic_check"
  /\ IF _is_download_cancelled(wk[w].appid)
     THEN Step(w, "fallback_failed")
     ELSE Step(w, "basic_write")
  /\ UNCHANGED <<elsewhere, api_json, DOWNLOAD_STATE, disk, history, canceller,
                 starts>>

\* _create_basic_lua_file lines 494-497
W_basic_write(w) ==
  /\ pc[w] = "basic_write"
  /\ \/ /\ lua_file' = [lua_file EXCEPT ![wk[w].appid] = "basic"]
        /\ Step(w, "basic_installed")
     \/ /\ Step(w, "fallback_failed")
        /\ UNCHANGED lua_file
  /\ UNCHANGED <<elsewhere, api_json, DOWNLOAD_STATE, temp_zip, loaded_apps, history, canceller, starts>>

\* _create_basic_lua_file line 498
W_basic_installed(w) ==
  /\ pc[w] = "basic_installed"
  /\ _set_download_state(wk[w].appid, [installedPath |-> LuaPath(wk[w].appid)])
  /\ Step(w, "fallback_roster")
  /\ UNCHANGED <<elsewhere, api_json, disk, history, canceller, starts>>

\* lines 650-652
W_fallback_roster(w) ==
  /\ pc[w] = "fallback_roster"
  /\ _append_loaded_app(wk[w].appid)
  /\ Step(w, "fallback_done")
  /\ UNCHANGED <<elsewhere, api_json, DOWNLOAD_STATE, temp_zip, lua_file, history, canceller, starts>>

\* lines 653-655
W_fallback_done(w) ==
  /\ pc[w] = "fallback_done"
  /\ _set_download_state(wk[w].appid,
        [status |-> "done", success |-> TRUE, api |-> FallbackApi])
  /\ Return(w)
  /\ UNCHANGED <<elsewhere, api_json, disk, history, canceller, starts>>

\* a fallback whose exception leaves the thread without a status write
W_fallback_raises(w) ==
  /\ pc[w] = "fallback_failed"
  /\ Return(w)
  /\ UNCHANGED <<elsewhere, api_json, DOWNLOAD_STATE, disk, history, canceller, starts>>

\* lines 656-658: any exception of the fallback, "cancelled" included
W_fallback_failed(w) ==
  /\ pc[w] = "fallback_failed"
  /\ _set_download_state(wk[w].appid,
        [status |-> "failed", error |-> "Not available on any API"])
  /\ Return(w)
  /\ UNCHANGED <<elsewhere, api_json, disk, history, canceller, starts>>

WorkerStep(w) ==
  \/ W_load(w) \/ W_try(w) \/ W_precheck(w) \/ W_request(w)
  \/ W_runtime_error(w) \/ W_open(w) \/ W_stream(w) \/ W_chunk_write(w)
  \/ W_chunk_set(w) \/ W_chunk_recheck(w) \/ W_cancel_cleanup(w)
  \/ W_validate(w) \/ W_proc_check(w) \/ W_proc_set(w) \/ W_lua_check1(w)
  \/ W_lua_check2(w) \/ W_lua_installing(w) \/ W_lua_check3(w)
  \/ W_lua_write(w) \/ W_lua_installed(w) \/ W_lua_rmzip(w)
  \/ W_post_check(w) \/ W_roster(w) \/ W_set_done(w)
  \/ W_install_cancelled(w) \/ W_install_failed(w) \/ W_install_failed_rm(w)
  \/ W_fallback(w) \/ W_basic_installing(w) \/ W_basic_check(w)
  \/ W_basic_write(w) \/ W_basic_installed(w) \/ W_fallback_roster(w)
  \/ W_fallback_done(w) \/ W_fallback_failed(w)

Next ==
  \/ \E inp \in AppIdInputs : start_add_via_skytools(inp)
  \/ \E inp \in AppIdInputs : cancel_add_via_skytools(inp)
  \/ cancel_set
  \/ \E w \in 1..NumWorkers : WorkerStep(w)

Spec == Init /\ [][Next]_vars

\* the worker threads run, and every request and stream returns or raises
FairSpec == Spec /\ \A w \in 1..NumWorkers : WF_vars(WorkerStep(w))

(***************************************************************************)
(* Properties.                                                             *)
(***************************************************************************)
Status(a) == DictGet(DOWNLOAD_STATE[a], "status", NoneVal)

\* no worker thread of appid a is running
Quiescent(a) == \A w \in Workers : Active(w) => wk[w].appid # a

\* worker w is started in this step
Spawned(w) == pc[w] # "load" /\ pc'[w] = "load"

\* the positions of a worker whose downloaded archive passed the check
PostValidation ==
  {"proc_check", "proc_set", "lua_check1", "lua_check2", "lua_installing",
   "lua_check3", "lua_write", "lua_installed", "lua_rmzip", "post_check",
   "roster", "set_done"}

C2_EarlyCancelEndsCancelled ==
  \A w \in Workers :
    pc[w] = "end" /\ w_cancel[w] = "early" =>
      /\ Status(wk[w].appid) = "cancelled"
      /\ ~temp_zip[wk[w].appid].exists

\* C3: a terminal status changes only by a start request for its appid.
C3_TerminalStatusStable ==
  [][\A a \in AppIds :
       (Status(a) \in Terminal /\ ~(\E w \in Workers : Spawned(w) /\ wk'[w].appid = a))
         => DictGet(DOWNLOAD_STATE'[a], "status", NoneVal) = Status(a)]_vars

\* C4: the cancellation check before a source attempt lets the worker go on
\* to the request only if no cancel request has set the flag in this run.
C4_NoSourceAfterCancel ==
  [][\A w \in Workers :
       (pc[w] = "precheck" /\ pc'[w] = "request") => w_cancel[w] = "none"]_vars

\* the sources 1..n in manifest order
FirstSources(n) == [k \in 1..n |-> k]

\* C5: a worker goes on to process and record source i only if the source
\* answered with its configured success code and the downloaded file passed
\* the signature check, after it sent one request to each of the sources
\* 1..i in manifest order; a source that passed is never skipped, and done
\* is written with the name of that source.
C5_FirstMatchWins ==
  /\ [](\A w \in Workers :
          pc[w] \in PostValidation =>
            /\ wk[w].i \in 1..Len(apis)
            /\ wk[w].code = apis[wk[w].i].success_code
            /\ wk[w].code # apis[wk[w].i].unavailable_code
            /\ w_tried[w] = FirstSources(wk[w].i)
            /\ (pc[w] = "proc_check" => wk[w].magic \in {ZipLocal, ZipEmpty, ZipSpanned}))
  /\ [][\A w \in Workers :
          /\ (pc[w] \in PostValidation /\ wk'[w].i # wk[w].i) => pc'[w] = "end"
          /\ (pc[w] = "set_done" /\ pc'[w] = "end") =>
               /\ DOWNLOAD_STATE'[wk[w].appid].status = "done"
               /\ DOWNLOAD_STATE'[wk[w].appid].api = ApiNames[wk[w].i]]_vars

\* the manifest [A, B]: A was skipped and B is recorded
C5_Witness ==
  \E w \in Workers :
    /\ pc[w] = "end"
    /\ w_tried[w] = <<1, 2>>
    /\ Status(wk[w].appid) = "done"
    /\ DOWNLOAD_STATE[wk[w].appid].api = "B"

\* the first four bytes of data are none of the three zip signatures
C6_BadSignature(data) ==
  \/ Len(data) < 4
  \/ SubSeq(data, 1, 4) \notin {<<80, 75, 3, 4>>, <<80, 75, 5, 6>>, <<80, 75, 7, 8>>}

BecomesFailed(a) ==
  Status(a) # "failed" /\ DictGet(DOWNLOAD_STATE'[a], "status", NoneVal) = "failed"

\* C7 as stated: failed is written only by the fallback, after every source
\* was exhausted.
C7_FailedOnlyAfterFallback ==
  [][\A a \in AppIds :
       BecomesFailed(a) =>
         \E w \in Workers :
           wk[w].appid = a /\ pc[w] = "fallback_failed" /\ wk[w].i = Len(apis) + 1]_vars

\* C7 amended: failed is written only when the manifest has no enabled
\* source, when a RuntimeError other than the cancellation is raised during
\* a source attempt, when processing or installing a valid archive raised,
\* or when the fallback raised after every source was tried.
C7_FailedCauses ==
  [][\A a \in AppIds :
       BecomesFailed(a) =>
         \E w \in Workers :
           /\ wk[w].appid = a
           /\ pc'[w] \in {"end", "install_failed_rm"}
           /\ \/ /\ pc[w] = "load" /\ apis = <<>>
                 /\ DOWNLOAD_STATE'[a].error = "No APIs available"
              \/ /\ pc[w] = "runtime_error" /\ wk[w].i \in 1..Len(apis)
                 /\ w_tried[w] = FirstSources(wk[w].i)
              \/ /\ pc[w] = "install_failed" /\ wk[w].i \in 1..Len(apis)
                 /\ wk[w].code = apis[wk[w].i].success_code
                 /\ DOWNLOAD_STATE'[a].error = "Processing failed"
              \/ /\ pc[w] = "fallback_failed" /\ wk[w].i = Len(apis) + 1
                 /\ w_tried[w] = FirstSources(Len(apis))
                 /\ DOWNLOAD_STATE'[a].error = "Not available on any API"]_vars

C7_Witness ==
  \E w \in Workers :
    /\ pc[w] = "end"
    /\ Status(wk[w].appid) = "failed"
    /\ DOWNLOAD_STATE[wk[w].appid].error = "Processing failed"

\* C8: the cancel handler goes on to its write only for an appid that has a
\* dict whose status is neither done nor failed, and answers success with
\* nothing to cancel otherwise; its write sets status cancelled and the
\* user-cancellation error, leaves the other keys, the other appids and
\* the worker alone, and changes nothing in a dict that is already
\* cancelled with that error; it answers success for every numeric appid.
C8_CancelHandler ==
  /\ [][/\ (c_pc = "idle" /\ c_pc' = "set") =>
             /\ c_appid' \in Started
             /\ Status(c_appid') \notin {"done", "failed"}
             /\ UNCHANGED <<DOWNLOAD_STATE, disk, pc, wk>>
        /\ (c_pc = "set" /\ c_pc' = "idle") =>
             /\ \A a \in AppIds \ {c_appid} : DOWNLOAD_STATE'[a] = DOWNLOAD_STATE[a]
             /\ DOMAIN DOWNLOAD_STATE'[c_appid] =
                  DOMAIN DOWNLOAD_STATE[c_appid] \cup {"status", "error"}
             /\ DOWNLOAD_STATE'[c_appid].status = "cancelled"
             /\ DOWNLOAD_STATE'[c_appid].error = "Cancelled by user"
             /\ \A k \in DOMAIN DOWNLOAD_STATE[c_appid] \ {"status", "error"} :
                  DOWNLOAD_STATE'[c_appid][k] = DOWNLOAD_STATE[c_appid][k]
             /\ (Status(c_appid) = "cancelled" => DOWNLOAD_STATE' = DOWNLOAD_STATE)
             /\ UNCHANGED <<disk, pc, wk>>]_vars
  /\ [](\A inp \in AppIdInputs :
          ToInt(inp).ok =>
            LET state == DOWNLOAD_STATE[ToInt(inp).val]
                reply == cancel_reply(inp, state)
            IN /\ reply.success
               /\ (DOMAIN state = {} \/ state.status \in {"done", "failed"})
                    <=> reply = [success |-> TRUE, message |-> "Nothing to cancel"])

\* a cancel request about to write to an appid whose run has ended cancelled
C8_Witness ==
  /\ c_pc = "set"
  /\ Status(c_appid) = "cancelled"
  /\ \E w \in Workers : pc[w] = "end" /\ wk[w].appid = c_appid

\* C9: a worker is started only for a positive appid, by a step that sets
\* the status of that appid to queued and starts no other worker; no dict is
\* created for an appid that is not positive.
C9_StartRejectsNonPositive ==
  /\ [](\A a \in AppIds : a <= 0 => a \notin Started)
  /\ [][\A w \in Workers :
          Spawned(w) =>
            /\ wk'[w].appid > 0
            /\ DOWNLOAD_STATE'[wk'[w].appid].status = "queued"
            /\ \A v \in Workers \ {w} : ~Spawned(v)]_vars

\* C10: right after an accepted start the dict of the appid holds status
\* queued, zero byte counters and none of the result keys of an earlier run.
C10_StartResetsRecord ==
  [][\A w \in Workers :
       Spawned(w) =>
         LET state == DOWNLOAD_STATE'[wk'[w].appid] IN
         /\ state.status = "queued"
         /\ state.bytesRead = 0
         /\ state.totalBytes = 0
         /\ DOMAIN state \cap {"error", "success", "api", "installedPath"} = {}]_vars

(***************************************************************************)
(* The roster file shared by the download workers of different appids:     *)
(* the tail of _download_zip_for_app from the roster entry to the done     *)
(* write, with _append_loaded_app as the read and the write it is made of, *)
(* next to the removal and the dismissal of roster lines.                  *)
(***************************************************************************)
\* number of appids whose workers record their installation
NumRosterApps == 2

RosterApps == 1..NumRosterApps

\* the rosters the file may hold before the workers record: no appid twice
RosterFiles ==
  {<<>>} \cup {<<a>> : a \in RosterApps}
         \cup {p \in RosterApps \X RosterApps : p[1] # p[2]}

\* the workers of all RosterApps have installed and are about to record
RosterInit ==
  /\ api_json = ApiJson(1)
  /\ DOWNLOAD_STATE = [a \in RosterApps |-> [status |-> "installing"]]
  /\ temp_zip = [a \in RosterApps |-> NoFile]
  /\ lua_file = [a \in RosterApps |-> "zip"]
  /\ loaded_apps \in RosterFiles
  /\ pc = [w \in 1..NumWorkers |-> "idle"]
  /\ wk = [w \in 1..NumWorkers |-> NewFrame(0)]
  /\ w_tried = [w \in 1..NumWorkers |-> <<>>]
  /\ w_cancel = [w \in 1..NumWorkers |-> "none"]
  /\ w_wrote = [w \in 1..NumWorkers |-> FALSE]
  /\ c_pc = "idle"
  /\ c_appid = 0
  /\ c_fresh = FALSE
  /\ starts = 0
  /\ r_pc = [a \in RosterApps |-> "read"]
  /\ r_lines = [a \in RosterApps |-> <<>>]
  /\ r_mark = [a \in RosterApps |-> "none"]
  /\ NoFixInstalled
  /\ FixersIdle
  /\ UnfixersIdle
  /\ NoRequest
  /\ StoresIdle

\* what the roster steps leave alone
roster_frame ==
  <<api_json, temp_zip, lua_file, pc, wk, history, canceller, starts,
    install, fixers, unfixers, last_call, stores>>

\* _append_loaded_app lines 130-134: the file is read, or reading raises
R_read(a) ==
  /\ r_pc[a] = "read"
  /\ \/ /\ r_lines' = [r_lines EXCEPT ![a] = loaded_apps]
        /\ r_pc' = [r_pc EXCEPT ![a] = "write"]
        /\ UNCHANGED r_mark
     \/ /\ r_pc' = [r_pc EXCEPT ![a] = "set_done"]
        /\ r_mark' = [r_mark EXCEPT ![a] = "raised"]
        /\ UNCHANGED r_lines
  /\ UNCHANGED <<roster_frame, DOWNLOAD_STATE, loaded_apps>>

\* _append_loaded_app lines 135-141: the lines read, without those of the
\* appid and with the new one, replace the file, or writing raises
R_write(a) ==
  /\ r_pc[a] = "write"
  /\ \/ /\ loaded_apps' = Append(WithoutApp(r_lines[a], a), a)
        /\ UNCHANGED r_mark
     \/ /\ r_mark' = [r_mark EXCEPT ![a] = "raised"]
        /\ UNCHANGED loaded_apps
  /\ r_pc' = [r_pc EXCEPT ![a] = "set_done"]
  /\ r_lines' = [r_lines EXCEPT ![a] = <<>>]
  /\ UNCHANGED <<roster_frame, DOWNLOAD_STATE>>

\* lines 609-610 (653-655 on the fallback path)
R_set_done(a) ==
  /\ r_pc[a] = "set_done"
  /\ _set_download_state(a, [status |-> "done", success |-> TRUE, api |-> "A"])
  /\ r_pc' = [r_pc EXCEPT ![a] = "end"]
  /\ UNCHANGED <<roster_frame, loaded_apps, r_lines, r_mark>>

\* _remove_loaded_app(appid), lines 144-157, called by
\* delete_skytools_for_app for an appid whose download has ended
R_remove(a) ==
  /\ r_pc[a] = "end"
  /\ r_mark[a] # "removed"
  /\ loaded_apps' = WithoutApp(loaded_apps, a)
  /\ r_mark' = [r_mark EXCEPT ![a] = "removed"]
  /\ UNCHANGED <<roster_frame, DOWNLOAD_STATE, r_pc, r_lines>>

\* dismiss_loaded_apps(), lines 701-708: the roster file is removed
dismiss_loaded_apps ==
  /\ \A a \in RosterApps : r_pc[a] = "end"
  /\ loaded_apps # <<>>
  /\ loaded_apps' = <<>>
  /\ r_mark' = [a \in RosterApps |-> "removed"]
  /\ UNCHANGED <<roster_frame, DOWNLOAD_STATE, r_pc, r_lines>>

RosterNext ==
  \/ \E a \in RosterApps : R_read(a)
  \/ \E a \in RosterApps : R_write(a)
  \/ \E a \in RosterApps : R_set_done(a)
  \/ \E a \in RosterApps : R_remove(a)
  \/ dismiss_loaded_apps

RosterSpec == RosterInit /\ [][RosterNext]_vars

\* the roster holds a line of appid a
InRoster(a) == \E k \in 1..Len(loaded_apps) : loaded_apps[k] = a

\* C11: an appid whose status is done has a line in the roster unless the
\* line was removed or dismissed since; stated here for the runs in which
\* no read or write of the roster file raised.
C11_DoneIsInRoster ==
  \A a \in RosterApps :
    (/\ DictGet(DOWNLOAD_STATE[a], "status", NoneVal) = "done"
     /\ \A b \in RosterApps : r_mark[b] = "none")
      => InRoster(a)

(***************************************************************************)
(* The transaction log of fixes (src/backend/fixes.py).  A text is the     *)
(* sequence of its lines, text.split("\n"): the empty text is one empty    *)
(* line and a text that ends with a newline has an empty last line.  A     *)
(* line is a pair <<key, value>>: the marker or field name it starts with  *)
(* ("" when it starts with none) and the rest of it, both without          *)
(* surrounding white space.  A file path is the line that names it.        *)
(***************************************************************************)
\* largest number of [FIX] blocks of a log
MaxBlocks == 3

Blank == <<"", "">>
FixOpen == <<"[FIX]", "">>
FixClose == <<"[/FIX]", "">>
Separator == <<"---", "">>
FilesLine == <<"Files:", "">>
DateLine(d) == <<"Date:", d>>
GameLine(g) == <<"Game:", g>>
TypeLine(t) == <<"Fix Type:", t>>
UrlLine(u) == <<"Download URL:", u>>
PathLine(f) == <<"", f>>

EmptyText == <<Blank>>

\* text.endswith("\n")
EndsWithNewline(text) == Len(text) >= 2 /\ text[Len(text)] = Blank

\* write(line + "\n") for each of lines, after a text that ends a line
WriteLines(text, lines) ==
  SubSeq(text, 1, Len(text) - 1) \o lines \o <<Blank>>

\* not text.strip()
IsBlankText(text) == \A k \in 1..Len(text) : text[k] = Blank

\* "[FIX]" in text
HasFixMarker(text) == \E k \in 1..Len(text) : text[k] = FixOpen

\* text.split("[FIX]"): what precedes the first marker line, and the
\* pieces that follow each marker, each beginning with the rest of the
\* marker's line
RECURSIVE SplitFix(_)
SplitFix(text) ==
  IF ~HasFixMarker(text) THEN <<text>>
  ELSE LET k == CHOOSE j \in 1..Len(text) :
                  text[j] = FixOpen /\ \A h \in 1..(j - 1) : text[h] # FixOpen
       IN <<SubSeq(text, 1, k - 1) \o <<Blank>>>>
            \o SplitFix(<<Blank>> \o SubSeq(text, k + 1, Len(text)))

\* the lines of a block the scanning loops look at: those before the first
\* "[/FIX]" or "---"
RECURSIVE UntilBreak(_)
UntilBreak(lines) ==
  IF lines = <<>> \/ Head(lines) \in {FixClose, Separator} THEN <<>>
  ELSE <<Head(lines)>> \o UntilBreak(Tail(lines))

\* an entry without the line that opens the file list
FixEntryNoFilesLine(date, game, fix_type, url, files) ==
  <<FixOpen, DateLine(date), GameLine(game), TypeLine(fix_type), UrlLine(url)>>
    \o files \o <<FixClose>>

\* the entry apply-fix writes, lines 223-231
FixEntry(date, game, fix_type, url, files) ==
  <<FixOpen, DateLine(date), GameLine(game), TypeLine(fix_type), UrlLine(url),
    FilesLine>> \o files \o <<FixClose>>

\* lines 214-231: the text written for the content read before
AppendFix(existing_content, entry) ==
  LET ended == IF EndsWithNewline(existing_content) THEN existing_content
               ELSE existing_content \o <<Blank>>
  IN IF existing_content # EmptyText
     THEN WriteLines(WriteLines(ended, <<Blank, Separator, Blank>>), entry)
     ELSE WriteLines(EmptyText, entry)

\* the name get_installed_fixes takes from the app manifest, and the name
\* apply-fix logs for a game it has no name of
ManifestName == "Manifest Game"
UnknownGame == "Unknown Game"

\* fix_data before the lines of a block are read, lines 536-545 and 575-584
NewFixData ==
  [gameName |-> ManifestName, date |-> "", fixType |-> "", downloadUrl |-> "",
   filesCount |-> 0, files |-> <<>>]

\* the if/elif chain of lines 554-567 (589-602) for one line
ListLine(acc, line) ==
  LET fix_data == acc.fix_data IN
  IF line[1] = "Date:"
  THEN [acc EXCEPT !.fix_data = [fix_data EXCEPT !.date = line[2]]]
  ELSE IF line[1] = "Game:"
  THEN IF line[2] # "" /\ line[2] # UnknownGame
       THEN [acc EXCEPT !.fix_data = [fix_data EXCEPT !.gameName = line[2]]]
       ELSE acc
  ELSE IF line[1] = "Fix Type:"
  THEN [acc EXCEPT !.fix_data = [fix_data EXCEPT !.fixType = line[2]]]
  ELSE IF line[1] = "Download URL:"
  THEN [acc EXCEPT !.fix_data = [fix_data EXCEPT !.downloadUrl = line[2]]]
  ELSE IF line = FilesLine
  THEN [acc EXCEPT !.in_files_section = TRUE]
  ELSE IF acc.in_files_section /\ line # Blank
  THEN [acc EXCEPT !.fix_data =
          [fix_data EXCEPT !.files = Append(fix_data.files, line)]]
  ELSE acc

RECURSIVE ListScan(_, _)
ListScan(acc, lines) ==
  IF lines = <<>> THEN acc
  ELSE ListScan(ListLine(acc, Head(lines)), Tail(lines))

\* fix_data after the loop over lines, with filesCount (lines 569, 604)
ListBlock(lines) ==
  LET fix_data ==
        ListScan([fix_data |-> NewFixData, in_files_section |-> FALSE], lines).fix_data
  IN [fix_data EXCEPT !.filesCount = Len(fix_data.files)]

\* lines 531-571: the records of the pieces, those without a date left out
RECURSIVE ListBlocks(_)
ListBlocks(fix_blocks) ==
  IF fix_blocks = <<>> THEN <<>>
  ELSE LET block == Head(fix_blocks)
           fix_data == ListBlock(UntilBreak(block))
       IN (IF ~IsBlankText(block) /\ fix_data.date # ""
           THEN <<fix_data>> ELSE <<>>) \o ListBlocks(Tail(fix_blocks))

\* a listing that returns the record of a log without marker whatever its date
GetInstalledFixesAnyDate(log_content) ==
  IF HasFixMarker(log_content)
  THEN ListBlocks(SplitFix(log_content))
  ELSE <<ListBlock(log_content)>>

\* get_installed_fixes, lines 526-610: the records of one log file
get_installed_fixes(log_content) ==
  IF HasFixMarker(log_content)
  THEN ListBlocks(SplitFix(log_content))
  ELSE LET fix_data == ListBlock(log_content)
       IN IF fix_data.date # "" THEN <<fix_data>> ELSE <<>>

\* "block_date and ...": block_date is neither None nor empty
Truthy(block_date) == block_date # NoneVal /\ block_date # ""

\* a scan that puts the files of every block in the delete set
UnfixLineAll(acc, line, fix_date) ==
  [block_date |-> IF line[1] = "Date:" THEN line[2] ELSE acc.block_date,
   block_lines |-> Append(acc.block_lines, line),
   in_files_section |-> acc.in_files_section \/ line = FilesLine,
   files |-> IF line # FilesLine /\ acc.in_files_section /\ line # Blank
             THEN acc.files \cup {line} ELSE acc.files]

\* lines 338-351 for one line of a block
UnfixLine(acc, line, fix_date) ==
  LET block_date == IF line[1] = "Date:" THEN line[2] ELSE acc.block_date
      selected == fix_date = NoneVal \/ (Truthy(block_date) /\ block_date = fix_date)
  IN [block_date |-> block_date,
      block_lines |-> Append(acc.block_lines, line),
      in_files_section |-> acc.in_files_section \/ line = FilesLine,
      files |-> IF line # FilesLine /\ acc.in_files_section /\ line # Blank /\ selected
                THEN acc.files \cup {line} ELSE acc.files]

\* the loop of lines 337-351; the locals a have their values before the
\* next line is read
RECURSIVE UnfixScan(_, _, _)
UnfixScan(acc, lines, fix_date) ==
  IF lines = <<>> THEN acc
  ELSE CHOOSE after \in
         {UnfixScan(UnfixLine(a, Head(lines), fix_date), Tail(lines), fix_date) :
            a \in {acc}} : TRUE

\* lines 332-351: a block after the loop over its lines
UnfixBlock(block, fix_date) ==
  UnfixScan([block_date |-> NoneVal, block_lines |-> <<>>,
             in_files_section |-> FALSE, files |-> {}],
            UntilBreak(block), fix_date)

\* lines 328-355: the delete set and the blocks to keep
RECURSIVE UnfixBlocks(_, _)
UnfixBlocks(fix_blocks, fix_date) ==
  IF fix_blocks = <<>> THEN [files_to_delete |-> {}, remaining_fixes |-> <<>>]
  ELSE LET block == Head(fix_blocks)
           scanned == UnfixBlock(block, fix_date)
           rest == UnfixBlocks(Tail(fix_blocks), fix_date)
       IN IF IsBlankText(block) THEN rest
          ELSE [files_to_delete |-> scanned.files \cup rest.files_to_delete,
                remaining_fixes |->
                  (IF fix_date # NoneVal /\ Truthy(scanned.block_date)
                      /\ scanned.block_date # fix_date
                   THEN <<<<FixOpen>> \o scanned.block_lines \o <<FixClose>>>>
                   ELSE <<>>) \o rest.remaining_fixes]

\* lines 359-366: every non-empty line after "Files:" of a log without marker
RECURSIVE LegacyFiles(_, _)
LegacyFiles(lines, in_files_section) ==
  IF lines = <<>> THEN {}
  ELSE IF Head(lines) = FilesLine THEN LegacyFiles(Tail(lines), TRUE)
  ELSE (IF in_files_section /\ Head(lines) # Blank THEN {Head(lines)} ELSE {})
         \cup LegacyFiles(Tail(lines), in_files_section)

\* a parse that finds no file in a log without marker
ParseUnfixMarkedOnly(log_content, fix_date) ==
  IF HasFixMarker(log_content)
  THEN UnfixBlocks(SplitFix(log_content), fix_date)
  ELSE [files_to_delete |-> {}, remaining_fixes |-> <<>>]

\* _unfix_game_worker lines 317-366: what the log yields for fix_date
ParseUnfix(log_content, fix_date) ==
  IF HasFixMarker(log_content)
  THEN UnfixBlocks(SplitFix(log_content), fix_date)
  ELSE [files_to_delete |-> LegacyFiles(log_content, FALSE),
        remaining_fixes |-> <<>>]

\* "\n\n---\n\n".join(remaining_fixes), line 393
RECURSIVE JoinFixes(_)
JoinFixes(remaining_fixes) ==
  IF Len(remaining_fixes) = 1 THEN Head(remaining_fixes)
  ELSE Head(remaining_fixes) \o <<Blank, Separator, Blank>>
         \o JoinFixes(Tail(remaining_fixes))

(***************************************************************************)
(* The logs and install directories the unfix and listing code is run on.  *)
(***************************************************************************)
\* number of accepted unfix requests of one behaviour
MaxUnfixes == 1

Dates == {"D1", "D2", "D3"}

\* the files the fix of each date installed; a.dll belongs to two fixes
FilesOn(date) ==
  CASE date = "D1" -> <<PathLine("a.dll")>>
    [] date = "D2" -> <<PathLine("b.dll"), PathLine("a.dll")>>
    [] OTHER -> <<PathLine("c.dll")>>

\* the files of the game's install directory before any unfix
GameFiles == {PathLine("a.dll"), PathLine("b.dll"), PathLine("c.dll"), PathLine("game.exe")}

\* a block as apply-fix writes it, one whose Date line is missing and one
\* whose write stopped before the terminator
BlockKinds == {"full", "nodate", "noend"}

LogBlock(kind, date, files) ==
  LET head == IF kind = "nodate" THEN <<FixOpen>> ELSE <<FixOpen, DateLine(date)>>
      tail == IF kind = "noend" THEN <<>> ELSE <<FixClose>>
  IN head \o <<GameLine("G"), TypeLine("T"), UrlLine("U"), FilesLine>> \o files \o tail

LogBlocks == {LogBlock(kind, date, FilesOn(date)) : kind \in BlockKinds, date \in Dates}

\* the log apply-fix builds by appending the blocks one after the other
RECURSIVE LogOf(_)
LogOf(blocks) ==
  IF blocks = <<>> THEN EmptyText
  ELSE AppendFix(LogOf(SubSeq(blocks, 1, Len(blocks) - 1)), blocks[Len(blocks)])

MarkedLogs == {LogOf(blocks) : blocks \in UNION {[1..n -> LogBlocks] : n \in 1..MaxBlocks}}

\* the log of a single fix as written before the markers were introduced
LegacyLog(date, files) ==
  (IF date = "" THEN <<>> ELSE <<DateLine(date)>>)
    \o <<GameLine("G"), TypeLine("T"), UrlLine("U"), FilesLine>> \o files \o <<Blank>>

\* the same log with its Date line moved below the files
LegacyLogDateLast(date, files) ==
  <<GameLine("G"), TypeLine("T"), UrlLine("U"), FilesLine>> \o files
    \o <<DateLine(date), Blank>>

LegacyLogs ==
  {LegacyLog(date, FilesOn("D2")) : date \in {"", "D1"}}
    \cup {LegacyLogDateLast("D1", FilesOn("D2"))}

\* the appid whose game has the install directory
LogApp == 1

LogFile(text) == [exists |-> TRUE, data |-> text]

LogInit ==
  /\ api_json = ApiJson(1)
  /\ DOWNLOAD_STATE = [a \in AppIds |-> EmptyDict]
  /\ temp_zip = [a \in AppIds |-> NoFile]
  /\ lua_file = [a \in AppIds |-> "absent"]
  /\ loaded_apps = <<>>
  /\ pc = [w \in 1..NumWorkers |-> "idle"]
  /\ wk = [w \in 1..NumWorkers |-> NewFrame(0)]
  /\ w_tried = [w \in 1..NumWorkers |-> <<>>]
  /\ w_cancel = [w \in 1..NumWorkers |-> "none"]
  /\ w_wrote = [w \in 1..NumWorkers |-> FALSE]
  /\ c_pc = "idle"
  /\ c_appid = 0
  /\ c_fresh = FALSE
  /\ starts = 0
  /\ RostersIdle
  /\ FixersIdle
  /\ UnfixersIdle
  /\ NoRequest
  /\ StoresIdle
  /\ \E file \in {NoFile} \cup {LogFile(text) : text \in MarkedLogs \cup LegacyLogs} :
       fix_log = [a \in AppIds |-> IF a = LogApp THEN file ELSE NoFile]
  /\ install_files = GameFiles

(***************************************************************************)
(* unfix: unfix_game and _unfix_game_worker, and the listing of the        *)
(* installed fixes.                                                        *)
(***************************************************************************)
\* the install_path arguments: none, the game's directory, a missing one
InstallPaths == {"", "game", "gone"}
ExistingPaths == {"game"}

\* lines 418-426: the path given, or what the Steam library lookup yields
\* for the appid ("" when it fails or finds nothing)
ResolvedPaths(install_path) ==
  IF install_path # "" THEN {install_path} ELSE {"", "game"}

\* str(n) of a number of files
CountText(n) == CHOOSE c \in Digits : DigitVal(c) = n

_set_unfix_state(appid, update) ==
  UNFIX_STATE' = [UNFIX_STATE EXCEPT ![appid] = DictUpdate(UNFIX_STATE[appid], update)]

_get_unfix_state(appid) == UNFIX_STATE[appid]

\* unfix_game: what it returns, lines 413-429 and 437
unfix_reply(inp, resolved_path) ==
  IF ~ToInt(inp).ok THEN InvalidAppid
  ELSE IF resolved_path = ""
  THEN [success |-> FALSE, error |-> "Could not find game install path"]
  ELSE IF resolved_path \notin ExistingPaths
  THEN [success |-> FALSE, error |-> "Install path does not exist"]
  ELSE Success

\* what the unfix steps leave alone
unfix_frame == <<downloads, rosters, fixers, last_call, stores>>

\* unfix_game(appid, install_path, fix_date), lines 412-437, for a request
\* that arrives while no unfix worker is running
unfix_game(inp, install_path, fix_date) ==
  /\ u_pc \in {"idle", "end"}
  /\ \E resolved_path \in ResolvedPaths(install_path) :
       /\ last_call' = [handler |-> "unfix_game", appid |-> inp,
                        install_path |-> install_path,
                        resolved_path |-> resolved_path,
                        reply |-> unfix_reply(inp, resolved_path)]
       /\ UNCHANGED stores
       /\ IF unfix_reply(inp, resolved_path) # Success
          THEN UNCHANGED <<downloads, rosters, install, fixers, unfixers>>
          ELSE /\ u_starts < MaxUnfixes
               /\ _set_unfix_state(ToInt(inp).val,
                    [status |-> "queued", progress |-> "", error |-> NoneVal])
               /\ u_pc' = "exists"
               /\ uk' = [appid |-> ToInt(inp).val,
                         fix_date |-> IF fix_date = "" THEN NoneVal ELSE fix_date,
                         files_to_delete |-> {}, remaining_fixes |-> <<>>,
                         deleted_count |-> 0, raised |-> FALSE,
                         log_raised |-> FALSE]
               /\ u_starts' = u_starts + 1
               /\ UNCHANGED <<downloads, rosters, fixers, install, fixes_out>>

\* lines 309-315
U_exists ==
  /\ u_pc = "exists"
  /\ IF ~fix_log[uk.appid].exists
     THEN /\ _set_unfix_state(uk.appid,
               [status |-> "failed", error |-> "No fix log found. Cannot un-fix."])
          /\ u_pc' = "end"
     ELSE /\ _set_unfix_state(uk.appid,
               [status |-> "removing", progress |-> "Reading log file..."])
          /\ u_pc' = "read"
  /\ UNCHANGED <<unfix_frame, install, uk, u_starts, fixes_out>>

\* lines 317-372: the log is read and parsed, or reading it raises
U_read ==
  /\ u_pc = "read"
  /\ \/ /\ fix_log[uk.appid].exists
        /\ LET parsed == ParseUnfix(fix_log[uk.appid].data, uk.fix_date)
           IN uk' = [uk EXCEPT !.files_to_delete = parsed.files_to_delete,
                               !.remaining_fixes = parsed.remaining_fixes]
        /\ u_pc' = "removing"
        /\ UNCHANGED UNFIX_STATE
     \/ /\ _set_unfix_state(uk.appid,
             [status |-> "failed", error |-> "Failed to read log file"])
        /\ u_pc' = "end"
        /\ UNCHANGED uk
  /\ UNCHANGED <<unfix_frame, install, u_starts, fixes_out>>

\* line 374
U_removing ==
  /\ u_pc = "removing"
  /\ _set_unfix_state(uk.appid,
       [status |-> "removing",
        progress |-> "Removing " \o CountText(Cardinality(uk.files_to_delete))
                       \o " files..."])
  /\ u_pc' = "remove"
  /\ UNCHANGED <<unfix_frame, install, uk, u_starts, fixes_out>>

\* a removal that counts every file of the delete set
U_remove_counts_listed ==
  /\ u_pc = "remove"
  /\ install_files' = install_files \ uk.files_to_delete
  /\ uk' = [uk EXCEPT !.deleted_count = Cardinality(uk.files_to_delete)]
  /\ u_pc' = "rewrite"
  /\ UNCHANGED <<unfix_frame, fix_log, UNFIX_STATE, u_starts, fixes_out>>

\* lines 375-386: every file of the delete set that exists is removed and
\* counted, unless its removal raises
U_remove ==
  /\ u_pc = "remove"
  /\ \E kept \in SUBSET (uk.files_to_delete \cap install_files) :
       LET removed == (uk.files_to_delete \cap install_files) \ kept IN
       /\ install_files' = install_files \ removed
       /\ uk' = [uk EXCEPT !.deleted_count = Cardinality(removed),
                           !.raised = (kept # {})]
  /\ u_pc' = "rewrite"
  /\ UNCHANGED <<unfix_frame, fix_log, UNFIX_STATE, u_starts, fixes_out>>

\* lines 388-403: the blocks kept replace the log, or the log is removed
\* when none is kept; an exception of either is logged only
U_rewrite ==
  /\ u_pc = "rewrite"
  /\ \/ /\ fix_log' = [fix_log EXCEPT ![uk.appid] =
                         IF uk.remaining_fixes # <<>>
                         THEN LogFile(JoinFixes(uk.remaining_fixes))
                         ELSE NoFile]
        /\ UNCHANGED uk
     \/ /\ uk' = [uk EXCEPT !.log_raised = TRUE]
        /\ UNCHANGED fix_log
  /\ u_pc' = "set_done"
  /\ UNCHANGED <<unfix_frame, install_files, UNFIX_STATE, u_starts, fixes_out>>

\* line 405
U_set_done ==
  /\ u_pc = "set_done"
  /\ _set_unfix_state(uk.appid,
       [status |-> "done", success |-> TRUE, filesRemoved |-> uk.deleted_count])
  /\ u_pc' = "end"
  /\ UNCHANGED <<unfix_frame, install, uk, u_starts, fixes_out>>

UnfixStep ==
  \/ U_exists \/ U_read \/ U_removing \/ U_remove \/ U_rewrite \/ U_set_done

\* get_installed_fixes() for the game of LogApp, lines 519-623: its reply
\* holds the records of the game's log, none when it has no log
ListInstalledFixes ==
  /\ fixes_out' = [success |-> TRUE,
                   fixes |-> IF fix_log[LogApp].exists
                             THEN get_installed_fixes(fix_log[LogApp].data)
                             ELSE <<>>]
  /\ UNCHANGED <<unfix_frame, install, UNFIX_STATE, u_pc, uk, u_starts>>

\* the requests that unfix_game accepts
LogNext ==
  \/ \E inp \in AppIdInputs, install_path \in ExistingPaths, fix_date \in Dates \cup {""} :
       ToInt(inp).ok /\ unfix_game(inp, install_path, fix_date)
  \/ UnfixStep
  \/ ListInstalledFixes

LogSpec == LogInit /\ [][LogNext]_vars

(***************************************************************************)
(* Properties of unfix and of the listing.                                 *)
(***************************************************************************)
Range(seq) == {seq[k] : k \in 1..Len(seq)}

\* the record of a complete block of date d as LogBlock writes it
FixRecord(date) ==
  [gameName |-> "G", date |-> date, fixType |-> "T", downloadUrl |-> "U",
   filesCount |-> Len(FilesOn(date)), files |-> FilesOn(date)]

\* the log of three complete blocks of the dates d[1], d[2], d[3]
ThreeFixLog(d) == LogOf([k \in 1..3 |-> LogBlock("full", d[k], FilesOn(d[k]))])

\* the three dates in their six orders
DateOrders == {d \in [1..3 -> Dates] : \A j, k \in 1..3 : j # k => d[j] # d[k]}

\* the log files of three complete blocks with distinct dates
ThreeFixLogs == [d \in DateOrders |-> LogFile(ThreeFixLog(d))]

\* the records of the dates of d other than date, in the order of d
RECURSIVE OtherRecords(_, _)
OtherRecords(d, date) ==
  IF d = <<>> THEN <<>>
  ELSE (IF Head(d) = date THEN <<>> ELSE <<FixRecord(Head(d))>>)
         \o OtherRecords(Tail(d), date)

\* the unfix worker takes the step from position from to position to
UnfixMoves(from, to) == u_pc = from /\ u_pc' = to

\* C12: on a log of three complete blocks with distinct dates, unfix with
\* the date of one of them puts exactly the files of that block in the
\* delete set, removes exactly those (when no removal raises), and writes
\* a log whose listing is the records of the two other blocks, in order
\* and with their date, game, fix type, URL and file list.
C12_UnfixOneOfThree ==
  [][\A d \in DateOrders :
       (/\ u_pc \in {"read", "remove", "rewrite"}
        /\ uk.appid = LogApp
        /\ uk.fix_date \in Dates
        /\ fix_log[LogApp] = ThreeFixLogs[d]) =>
         /\ UnfixMoves("read", "removing") =>
              uk'.files_to_delete = Range(FilesOn(uk.fix_date))
         /\ (UnfixMoves("remove", "rewrite") /\ ~uk'.raised) =>
              install_files' = install_files \ Range(FilesOn(uk.fix_date))
         /\ (UnfixMoves("rewrite", "set_done") /\ ~uk'.log_raised) =>
              /\ fix_log'[LogApp].exists
              /\ get_installed_fixes(fix_log'[LogApp].data)
                   = OtherRecords(d, uk.fix_date)]_vars

\* unfix of D2 on the log D1, D2, D3 has removed b.dll and a.dll and is
\* about to write the blocks of D1 and D3
C12_Witness ==
  /\ u_pc = "rewrite"
  /\ fix_log[LogApp] = ThreeFixLogs[<<"D1", "D2", "D3">>]
  /\ uk.fix_date = "D2"
  /\ uk.files_to_delete = {PathLine("a.dll"), PathLine("b.dll")}
  /\ install_files = {PathLine("c.dll"), PathLine("game.exe")}
  /\ Len(uk.remaining_fixes) = 2

\* C13, for a log without marker: unfix with a date puts a file in the
\* delete set only if the log's block has that date.
C13_LegacyUnfixByDate ==
  [][(/\ UnfixMoves("read", "removing")
      /\ uk.fix_date # NoneVal
      /\ ~HasFixMarker(fix_log[uk.appid].data)
      /\ DateLine(uk.fix_date) \notin Range(fix_log[uk.appid].data))
       => uk'.files_to_delete = {}]_vars

\* the path lines of a text
PathLines(text) == {line \in Range(text) : line[1] = "" /\ line[2] # ""}

\* C14: unfix without a date puts every file the log lists in the delete
\* set and keeps no block, its removal step (when no removal raises) removes
\* exactly the listed files, its rewrite step (when it does not raise)
\* removes the log file, and a listing of a directory without log is empty.
C14_UnfixAll ==
  [][/\ (UnfixMoves("read", "removing") /\ uk.fix_date = NoneVal) =>
          /\ PathLines(fix_log[uk.appid].data) \subseteq uk'.files_to_delete
          /\ uk'.remaining_fixes = <<>>
     /\ (UnfixMoves("remove", "rewrite") /\ uk.fix_date = NoneVal /\ ~uk'.raised) =>
          install_files' = install_files \ PathLines(fix_log[uk.appid].data)
     /\ (UnfixMoves("rewrite", "set_done") /\ uk.fix_date = NoneVal /\ ~uk'.log_raised) =>
          ~fix_log'[uk.appid].exists
     /\ (fixes_out' # fixes_out /\ ~fix_log[LogApp].exists) =>
          fixes_out'.fixes = <<>>]_vars

\* an unfix without date that removed the three listed files and the log
C14_Witness ==
  /\ u_pc = "end"
  /\ uk.appid = LogApp
  /\ uk.fix_date = NoneVal
  /\ ~uk.raised
  /\ ~uk.log_raised
  /\ uk.deleted_count = 3
  /\ ~fix_log[LogApp].exists
  /\ DictGet(UNFIX_STATE[LogApp], "status", NoneVal) = "done"

\* a piece of the log that has both a Date line with a value and its
\* [/FIX] terminator
IsCompleteBlock(block) ==
  /\ FixClose \in Range(block)
  /\ \E line \in Range(UntilBreak(block)) : line[1] = "Date:" /\ line[2] # ""

\* the pieces of a log that are complete blocks
CompleteBlocks(log_content) == SelectSeq(SplitFix(log_content), IsCompleteBlock)

\* get_installed_fixes returns a reply that differs from the last one
Listed == fixes_out' # fixes_out

\* C16: on a log with markers, the listing returns the records of the
\* complete blocks only, and the unfix parse takes files to delete from the
\* complete blocks only: a block without Date line or without terminator
\* counts as absent.
C16_PartialBlocksAbsent ==
  [][/\ (Listed /\ fix_log[LogApp].exists /\ HasFixMarker(fix_log[LogApp].data)) =>
          fixes_out'.fixes = ListBlocks(CompleteBlocks(fix_log[LogApp].data))
     /\ (UnfixMoves("read", "removing") /\ HasFixMarker(fix_log[uk.appid].data)) =>
          uk'.files_to_delete =
            UnfixBlocks(CompleteBlocks(fix_log[uk.appid].data), uk.fix_date).files_to_delete]_vars

\* the non-empty lines that follow the first "Files:" line, in order
RECURSIVE LinesAfterFiles(_)
LinesAfterFiles(lines) ==
  IF lines = <<>> THEN <<>>
  ELSE IF Head(lines) = FilesLine
  THEN SelectSeq(Tail(lines), LAMBDA line : line # Blank)
  ELSE LinesAfterFiles(Tail(lines))

\* the text has a Date line with a value
HasDate(text) == \E line \in Range(text) : line[1] = "Date:" /\ line[2] # ""

\* a line that is not one of the fields of the log
IsPathLine(line) == line[1] = "" /\ line[2] # ""

\* the listing reads an existing log without marker
ListsLegacy ==
  Listed /\ fix_log[LogApp].exists /\ ~HasFixMarker(fix_log[LogApp].data)

\* C17 as stated: the listing of a log without marker has exactly one
\* record, whose files are the non-empty lines after "Files:", in order.
C17_LegacyListsOne ==
  [][ListsLegacy =>
       /\ Len(fixes_out'.fixes) = 1
       /\ fixes_out'.fixes[1].files = LinesAfterFiles(fix_log[LogApp].data)]_vars

\* C17: the listing of a log without marker that has a Date line with a
\* value has exactly one record, whose files are the non-empty lines after
\* "Files:" that are not field lines, in order; a log without marker and
\* without date has no record.
C17_LegacyListing ==
  [][ListsLegacy =>
       IF HasDate(fix_log[LogApp].data)
       THEN /\ Len(fixes_out'.fixes) = 1
            /\ fixes_out'.fixes[1].files =
                 SelectSeq(LinesAfterFiles(fix_log[LogApp].data), IsPathLine)
            /\ fixes_out'.fixes[1].filesCount = Len(fixes_out'.fixes[1].files)
       ELSE fixes_out'.fixes = <<>>]_vars

\* the listing of the legacy log of D1 returned its one record
C17_Witness ==
  /\ fixes_out.success
  /\ fix_log[LogApp] = LogFile(LegacyLog("D1", FilesOn("D2")))
  /\ Len(fixes_out.fixes) = 1
  /\ fixes_out.fixes[1].date = "D1"
  /\ fixes_out.fixes[1].files = FilesOn("D2")

\* C18: an unfix request is accepted, and its worker started, only when
\* the install directory of the appid has a log.
C18_NoLogRejected ==
  [][(u_pc \in {"idle", "end"} /\ u_pc' = "exists") => fix_log[uk'.appid].exists]_vars

(***************************************************************************)
(* apply-fix: apply_game_fix, _download_and_extract_fix and                *)
(* cancel_apply_fix.  One fix worker runs at a time.  A name of the        *)
(* archive is name.split("/"): a directory entry ends with "".             *)
(***************************************************************************)
\* number of accepted apply-fix requests of one behaviour
MaxFixStarts == 2

InProgress == {"queued", "downloading", "extracting"}

\* a setter whose map holds one dict for all ids
_set_fix_download_state_one_dict(appid, update) ==
  FIX_DOWNLOAD_STATE' =
    [a \in DOMAIN FIX_DOWNLOAD_STATE |-> DictUpdate(FIX_DOWNLOAD_STATE[appid], update)]

_set_fix_download_state(appid, update) ==
  FIX_DOWNLOAD_STATE' =
    [FIX_DOWNLOAD_STATE EXCEPT ![appid] = DictUpdate(FIX_DOWNLOAD_STATE[appid], update)]

_get_fix_download_state(appid) == FIX_DOWNLOAD_STATE[appid]

\* _get_fix_download_state(appid).get("status")
FixStatus(appid) == DictGet(_get_fix_download_state(appid), "status", NoneVal)

\* str(appid)
AppidStr(appid) == IF appid < 0 THEN "-1" ELSE "1"

\* "/".join(parts)
RECURSIVE JoinPath(_)
JoinPath(parts) ==
  IF Len(parts) = 1 THEN parts[1]
  ELSE parts[1] \o "/" \o JoinPath(Tail(parts))

\* what is downloaded is no zip archive
BadArchive == [ok |-> FALSE, names |-> <<>>]
\* an archive of one file
PlainArchive == [ok |-> TRUE, names |-> <<<<"a.dll">>>>]
\* an archive whose only top-level entry is the folder "1"
FolderArchive == [ok |-> TRUE, names |-> <<<<"1", "">>, <<"1", "b.dll">>>>]

\* what the server answers: the lengths of the chunks of the stream and
\* the archive they make up (none when no byte is sent)
FixResponses ==
  {[stream |-> <<>>, archive |-> BadArchive],
   [stream |-> <<1, 1>>, archive |-> BadArchive],
   [stream |-> <<0, 1>>, archive |-> PlainArchive],
   [stream |-> <<1, 1>>, archive |-> FolderArchive]}

\* datetime.now() of line 224: the second of the fix already logged, or a
\* later one
FixDates == {"D1", "D2"}

\* lines 133-137
TopLevelEntries(names) == {names[k][1] : k \in 1..Len(names)} \ {""}

\* the condition of line 142
SingleFolder(appid, names) ==
  /\ Cardinality(TopLevelEntries(names)) = 1
  /\ AppidStr(appid) \in TopLevelEntries(names)

\* member.endswith("/")
IsDirEntry(member) == member[Len(member)] = ""

\* the locals of a fix worker that has not run a line yet
NewFixFrame(appid) ==
  [appid |-> appid, stream |-> <<>>, archive |-> BadArchive, bytesRead |-> 0,
   members |-> <<>>, single |-> FALSE, extracted_files |-> <<>>,
   existing_content |-> EmptyText, logged |-> FALSE]

\* a validation that does not look whether the install path exists
apply_reply_any_path(inp, download_url, install_path) ==
  IF ~ToInt(inp).ok THEN InvalidAppid
  ELSE IF download_url = "" \/ install_path = ""
  THEN [success |-> FALSE, error |-> "Missing download URL or install path"]
  ELSE Success

\* apply_game_fix: what it returns, lines 259-268 and 278
apply_reply(inp, download_url, install_path) ==
  IF ~ToInt(inp).ok THEN InvalidAppid
  ELSE IF download_url = "" \/ install_path = ""
  THEN [success |-> FALSE, error |-> "Missing download URL or install path"]
  ELSE IF install_path \notin ExistingPaths
  THEN [success |-> FALSE, error |-> "Install path does not exist"]
  ELSE Success

\* what the apply-fix steps leave alone
fix_frame == <<downloads, rosters, unfixers, last_call, stores>>

\* what the steps of the fix worker leave alone
fix_worker_frame == <<fix_frame, fc_pc, fc_appid, f_starts, f_cancel>>

\* apply_game_fix(appid, download_url, install_path, fix_type, game_name),
\* lines 258-278, for a request that arrives while no fix worker is running
apply_game_fix(inp, download_url, install_path) ==
  /\ f_pc \in {"idle", "end"}
  /\ last_call' = [handler |-> "apply_game_fix", appid |-> inp,
                   download_url |-> download_url, install_path |-> install_path,
                   reply |-> apply_reply(inp, download_url, install_path)]
  /\ UNCHANGED stores
  /\ IF apply_reply(inp, download_url, install_path) # Success
     THEN UNCHANGED <<downloads, rosters, install, fixers, unfixers>>
     ELSE /\ f_starts < MaxFixStarts
          /\ _set_fix_download_state(ToInt(inp).val,
               [status |-> "queued", bytesRead |-> 0, totalBytes |-> 0,
                error |-> NoneVal])
          /\ f_pc' = "start"
          /\ fk' = NewFixFrame(ToInt(inp).val)
          /\ f_starts' = f_starts + 1
          /\ f_cancel' = [f_cancel EXCEPT ![ToInt(inp).val] = "none"]
          /\ UNCHANGED <<downloads, rosters, unfixers, install, fix_zip, fc_pc,
                         fc_appid>>

\* line 101
F_start ==
  /\ f_pc = "start"
  /\ _set_fix_download_state(fk.appid,
       [status |-> "downloading", bytesRead |-> 0, totalBytes |-> 0,
        error |-> NoneVal])
  /\ f_pc' = "request"
  /\ UNCHANGED <<fix_worker_frame, install, fix_zip, fk>>

\* lines 105-108: the request raises, or its answer begins
F_request ==
  /\ f_pc = "request"
  /\ \/ /\ f_pc' = "on_failed"
        /\ UNCHANGED <<FIX_DOWNLOAD_STATE, fk>>
     \/ \E resp \in FixResponses :
          /\ fk' = [fk EXCEPT !.stream = resp.stream, !.archive = resp.archive]
          /\ _set_fix_download_state(fk.appid, [totalBytes |-> 0])
          /\ f_pc' = "open"
  /\ UNCHANGED <<fix_worker_frame, install, fix_zip>>

\* line 110: the archive file is created, or opening it raises
F_open ==
  /\ f_pc = "open"
  /\ \/ /\ fix_zip' = [fix_zip EXCEPT ![fk.appid] = [exists |-> TRUE, data |-> <<>>]]
        /\ f_pc' = "chunk"
     \/ /\ f_pc' = "on_failed"
        /\ UNCHANGED fix_zip
  /\ UNCHANGED <<fix_worker_frame, install, FIX_DOWNLOAD_STATE, fk>>

\* lines 111-117: the stream ends, an empty chunk is passed over, the
\* status is read before the chunk is written, or the stream raises
F_chunk ==
  /\ f_pc = "chunk"
  /\ \/ IF fk.stream = <<>>
        THEN f_pc' = "extracting" /\ UNCHANGED fk
        ELSE IF Head(fk.stream) = 0
        THEN f_pc' = "chunk" /\ fk' = [fk EXCEPT !.stream = Tail(fk.stream)]
        ELSE /\ fk' = [fk EXCEPT !.bytesRead =
                         DictGet(_get_fix_download_state(fk.appid), "bytesRead", 0)]
             /\ f_pc' = IF FixStatus(fk.appid) = "cancelled"
                        THEN "on_cancelled" ELSE "write"
     \/ /\ fk.stream # <<>>
        /\ f_pc' = "on_failed"
        /\ UNCHANGED fk
  /\ UNCHANGED <<fix_worker_frame, install, FIX_DOWNLOAD_STATE, fix_zip>>

\* lines 118-120
F_write ==
  /\ f_pc = "write"
  /\ fix_zip' = [fix_zip EXCEPT ![fk.appid].data = @ \o <<Head(fk.stream)>>]
  /\ _set_fix_download_state(fk.appid,
       [bytesRead |-> fk.bytesRead + Head(fk.stream)])
  /\ fk' = [fk EXCEPT !.stream = Tail(fk.stream)]
  /\ f_pc' = "recheck"
  /\ UNCHANGED <<fix_worker_frame, install>>

\* lines 121-123
F_recheck ==
  /\ f_pc = "recheck"
  /\ f_pc' = IF FixStatus(fk.appid) = "cancelled" THEN "on_cancelled" ELSE "chunk"
  /\ UNCHANGED <<fix_worker_frame, install, FIX_DOWNLOAD_STATE, fix_zip, fk>>

\* line 126
F_extracting ==
  /\ f_pc = "extracting"
  /\ _set_fix_download_state(fk.appid, [status |-> "extracting"])
  /\ f_pc' = "zip"
  /\ UNCHANGED <<fix_worker_frame, install, fix_zip, fk>>

\* lines 129-137: the archive is opened, which raises if it is none
F_zip ==
  /\ f_pc = "zip"
  /\ IF fk.archive.ok
     THEN /\ fk' = [fk EXCEPT !.members = fk.archive.names,
                              !.single = SingleFolder(fk.appid, fk.archive.names)]
          /\ f_pc' = "check_start"
     ELSE f_pc' = "on_failed" /\ UNCHANGED fk
  /\ UNCHANGED <<fix_worker_frame, install, FIX_DOWNLOAD_STATE, fix_zip>>

\* lines 138-140
F_check_start ==
  /\ f_pc = "check_start"
  /\ f_pc' = IF FixStatus(fk.appid) = "cancelled" THEN "on_cancelled" ELSE "member"
  /\ UNCHANGED <<fix_worker_frame, install, FIX_DOWNLOAD_STATE, fix_zip, fk>>

\* one turn of the loop of lines 144-156 or of lines 162-166; writing a
\* member may raise
F_member ==
  /\ f_pc = "member"
  /\ IF fk.members = <<>>
     THEN f_pc' = "check_end" /\ UNCHANGED <<fk, install_files>>
     ELSE \/ f_pc' = "on_failed" /\ UNCHANGED <<fk, install_files>>
          \/ LET member == Head(fk.members)
                 inside == /\ member[1] = AppidStr(fk.appid)
                           /\ Len(member) >= 2
                           /\ member # <<AppidStr(fk.appid), "">>
                 target_path == IF fk.single THEN Tail(member) ELSE member
                 passed == IF fk.single THEN ~inside ELSE IsDirEntry(member)
                 written == ~passed /\ ~IsDirEntry(member)
                 file == PathLine(JoinPath(target_path))
             IN /\ fk' = [fk EXCEPT !.members = Tail(fk.members),
                                    !.extracted_files =
                                      IF written THEN Append(@, file) ELSE @]
                /\ install_files' = IF written THEN install_files \cup {file}
                                    ELSE install_files
                /\ f_pc' = IF passed THEN "member" ELSE "check_member"
  /\ UNCHANGED <<fix_worker_frame, fix_log, FIX_DOWNLOAD_STATE, fix_zip>>

\* lines 157-159 and 167-169
F_check_member ==
  /\ f_pc = "check_member"
  /\ f_pc' = IF FixStatus(fk.appid) = "cancelled" THEN "on_cancelled" ELSE "member"
  /\ UNCHANGED <<fix_worker_frame, install, FIX_DOWNLOAD_STATE, fix_zip, fk>>

\* lines 171-173; lines 175-200 act for the fix type "Online Fix (Unsteam)"
\* only
F_check_end ==
  /\ f_pc = "check_end"
  /\ f_pc' = IF FixStatus(fk.appid) = "cancelled" THEN "on_cancelled" ELSE "log_read"
  /\ UNCHANGED <<fix_worker_frame, install, FIX_DOWNLOAD_STATE, fix_zip, fk>>

\* lines 205-211: the content of the log, "" when there is no log or when
\* reading it raises
F_log_read ==
  /\ f_pc = "log_read"
  /\ \/ fk' = [fk EXCEPT !.existing_content =
                 IF fix_log[fk.appid].exists THEN fix_log[fk.appid].data
                 ELSE EmptyText]
     \/ /\ fix_log[fk.appid].exists
        /\ fk' = [fk EXCEPT !.existing_content = EmptyText]
  /\ f_pc' = "log_write"
  /\ UNCHANGED <<fix_worker_frame, install, FIX_DOWNLOAD_STATE, fix_zip>>

\* lines 214-235: the log is written anew with the content read and the
\* new entry, or opening it raises, which is logged only
F_log_write ==
  /\ f_pc = "log_write"
  /\ \/ \E date \in FixDates :
          /\ fix_log' = [fix_log EXCEPT ![fk.appid] =
               LogFile(AppendFix(fk.existing_content,
                         FixEntry(date, "G", "T", "U", fk.extracted_files)))]
          /\ fk' = [fk EXCEPT !.logged = TRUE]
     \/ UNCHANGED <<fix_log, fk>>
  /\ f_pc' = "set_done"
  /\ UNCHANGED <<fix_worker_frame, install_files, FIX_DOWNLOAD_STATE, fix_zip>>

\* line 238
F_set_done ==
  /\ f_pc = "set_done"
  /\ _set_fix_download_state(fk.appid, [status |-> "done", success |-> TRUE])
  /\ f_pc' = "rm_zip"
  /\ UNCHANGED <<fix_worker_frame, install, fix_zip, fk>>

\* lines 240-243: the archive is removed, unless removing it raises
F_rm_zip ==
  /\ f_pc = "rm_zip"
  /\ \/ fix_zip' = [fix_zip EXCEPT ![fk.appid] = NoFile]
     \/ UNCHANGED fix_zip
  /\ f_pc' = "end"
  /\ UNCHANGED <<fix_worker_frame, install, FIX_DOWNLOAD_STATE, fk>>

\* lines 246-253, the handler of RuntimeError("cancelled")
F_on_cancelled ==
  /\ f_pc = "on_cancelled"
  /\ \/ fix_zip' = [fix_zip EXCEPT ![fk.appid] = NoFile]
     \/ UNCHANGED fix_zip
  /\ _set_fix_download_state(fk.appid,
       [status |-> "cancelled", success |-> FALSE, error |-> CancelledByUser])
  /\ f_pc' = "end"
  /\ UNCHANGED <<fix_worker_frame, install, fk>>

\* a handler of the fix worker that ends without writing a status
F_on_failed_silent ==
  /\ f_pc = "on_failed"
  /\ f_pc' = "end"
  /\ UNCHANGED <<fix_worker_frame, install, FIX_DOWNLOAD_STATE, fix_zip, fk>>

\* lines 254-255, the handler of every other exception
F_on_failed ==
  /\ f_pc = "on_failed"
  /\ _set_fix_download_state(fk.appid, [status |-> "failed", error |-> "exc"])
  /\ f_pc' = "end"
  /\ UNCHANGED <<fix_worker_frame, install, fix_zip, fk>>

FixStep ==
  \/ F_start \/ F_request \/ F_open \/ F_chunk \/ F_write \/ F_recheck
  \/ F_extracting \/ F_zip \/ F_check_start \/ F_member \/ F_check_member
  \/ F_check_end \/ F_log_read \/ F_log_write \/ F_set_done \/ F_rm_zip
  \/ F_on_cancelled \/ F_on_failed

\* cancel_apply_fix(appid), lines 291-299: the state is read
cancel_apply_fix(inp) ==
  /\ fc_pc = "idle"
  /\ IF \/ ~ToInt(inp).ok
        \/ _get_fix_download_state(ToInt(inp).val) = EmptyDict
        \/ FixStatus(ToInt(inp).val) \in {"done", "failed"}
     THEN UNCHANGED vars
     ELSE /\ fc_pc' = "set"
          /\ fc_appid' = ToInt(inp).val
          /\ UNCHANGED <<fix_frame, install, FIX_DOWNLOAD_STATE, fix_zip, f_pc,
                         fk, f_starts, f_cancel>>

\* cancel_apply_fix, lines 301-303: the status is set and ok is returned
FC_set ==
  /\ fc_pc = "set"
  /\ _set_fix_download_state(fc_appid,
       [status |-> "cancelled", success |-> FALSE, error |-> CancelledByUser])
  /\ f_cancel' = [f_cancel EXCEPT ![fc_appid] =
                    IF FixStatus(fc_appid) \in InProgress
                    THEN FixStatus(fc_appid) ELSE @]
  /\ fc_pc' = "idle"
  /\ fc_appid' = 0
  /\ UNCHANGED <<fix_frame, install, fix_zip, f_pc, fk, f_starts>>

\* the logs an apply-fix finds: none, one complete block, a legacy log
FixInitLogs ==
  {NoFile, LogFile(LogOf(<<LogBlock("full", "D1", FilesOn("D1"))>>)),
   LogFile(LegacyLog("D1", FilesOn("D2")))}

FixInit ==
  /\ api_json = ApiJson(1)
  /\ DOWNLOAD_STATE = [a \in AppIds |-> EmptyDict]
  /\ temp_zip = [a \in AppIds |-> NoFile]
  /\ lua_file = [a \in AppIds |-> "absent"]
  /\ loaded_apps = <<>>
  /\ pc = [w \in 1..NumWorkers |-> "idle"]
  /\ wk = [w \in 1..NumWorkers |-> NewFrame(0)]
  /\ w_tried = [w \in 1..NumWorkers |-> <<>>]
  /\ w_cancel = [w \in 1..NumWorkers |-> "none"]
  /\ w_wrote = [w \in 1..NumWorkers |-> FALSE]
  /\ c_pc = "idle"
  /\ c_appid = 0
  /\ c_fresh = FALSE
  /\ starts = 0
  /\ RostersIdle
  /\ FixersIdle
  /\ UnfixersIdle
  /\ NoRequest
  /\ StoresIdle
  /\ \E file \in FixInitLogs :
       fix_log = [a \in AppIds |-> IF a = LogApp THEN file ELSE NoFile]
  /\ install_files = {PathLine("game.exe")}

FixNext ==
  \/ \E inp \in AppIdInputs, install_path \in ExistingPaths :
       ToInt(inp).ok /\ apply_game_fix(inp, "U", install_path)
  \/ FixStep
  \/ \E inp \in AppIdInputs : cancel_apply_fix(inp)
  \/ FC_set

FixSpec == FixInit /\ [][FixNext]_vars

(***************************************************************************)
(* Properties of apply-fix.                                                *)
(***************************************************************************)
\* the fix worker takes the step from position from to position to
FixMoves(from, to) == f_pc = from /\ f_pc' = to

\* the content of a file, the empty text when there is no file
ContentOf(file) == IF file.exists THEN file.data ELSE EmptyText

\* the records of a file, none when there is no file
RecordsOf(file) == IF file.exists THEN get_installed_fixes(file.data) ELSE <<>>

\* the record of the entry the fix worker writes with the given date
NewRecord(date) ==
  [gameName |-> "G", date |-> date, fixType |-> "T", downloadUrl |-> "U",
   filesCount |-> Len(fk.extracted_files), files |-> fk.extracted_files]

\* C15: when the fix worker has written its entry, the log is its previous
\* content followed by the delimiter (if there was content) and the new
\* block, and its records are the previous records followed by one new record.
C15_LogIsAppended ==
  [][(FixMoves("log_write", "set_done") /\ fk'.logged) =>
       \E date \in FixDates :
         /\ fix_log'[fk.appid].exists
         /\ fix_log'[fk.appid].data =
              AppendFix(ContentOf(fix_log[fk.appid]),
                        FixEntry(date, "G", "T", "U", fk.extracted_files))
         /\ RecordsOf(fix_log'[fk.appid])
              = RecordsOf(fix_log[fk.appid]) \o <<NewRecord(date)>>]_vars

\* C19: a fix whose status cancel-fix replaced by cancelled while it was
\* queued, downloading or extracting has, when its worker has ended, the
\* status cancelled and no block appended by that worker.
C19_CancelStopsFix ==
  (/\ f_pc = "end"
   /\ fc_pc = "idle"
   /\ f_cancel[fk.appid] \in InProgress)
    => /\ FixStatus(fk.appid) = "cancelled"
       /\ ~fk.logged

\* the place of a status in the order of apply-fix
FixRank(status) ==
  CASE status = NoneVal -> 0
    [] status = "queued" -> 1
    [] status = "downloading" -> 2
    [] status = "extracting" -> 3
    [] OTHER -> 4

\* C20: the status of an id changes only to queued by an accepted apply-fix,
\* or forwards in the order queued, downloading, extracting, terminal from
\* a status that is not terminal.
C20_FixStatusForward ==
  [][\A a \in AppIds :
       FixStatus(a)' # FixStatus(a) =>
         \/ f_starts' # f_starts /\ FixStatus(a)' = "queued"
         \/ /\ FixStatus(a) \notin Terminal
            /\ FixRank(FixStatus(a)') > FixRank(FixStatus(a))]_vars

(***************************************************************************)
(* The workers of apply-fix and of unfix on one install directory, either  *)
(* the one or the other in a behaviour, with their threads scheduled.      *)
(***************************************************************************)
WorkersInit ==
  /\ api_json = ApiJson(1)
  /\ DOWNLOAD_STATE = [a \in AppIds |-> EmptyDict]
  /\ temp_zip = [a \in AppIds |-> NoFile]
  /\ lua_file = [a \in AppIds |-> "absent"]
  /\ loaded_apps = <<>>
  /\ pc = [w \in 1..NumWorkers |-> "idle"]
  /\ wk = [w \in 1..NumWorkers |-> NewFrame(0)]
  /\ w_tried = [w \in 1..NumWorkers |-> <<>>]
  /\ w_cancel = [w \in 1..NumWorkers |-> "none"]
  /\ w_wrote = [w \in 1..NumWorkers |-> FALSE]
  /\ c_pc = "idle"
  /\ c_appid = 0
  /\ c_fresh = FALSE
  /\ starts = 0
  /\ RostersIdle
  /\ FixersIdle
  /\ UnfixersIdle
  /\ NoRequest
  /\ StoresIdle
  /\ \E file \in FixInitLogs :
       fix_log = [a \in AppIds |-> IF a = LogApp THEN file ELSE NoFile]
  /\ install_files \in
       {{PathLine("game.exe")}, GameFiles \ {PathLine("a.dll")}, GameFiles}

WorkersNext ==
  \/ \E inp \in AppIdInputs, install_path \in ExistingPaths :
       /\ ToInt(inp).ok /\ u_starts = 0 /\ f_starts = 0
       /\ apply_game_fix(inp, "U", install_path)
  \/ FixStep
  \/ \E inp \in AppIdInputs : cancel_apply_fix(inp)
  \/ FC_set
  \/ \E inp \in AppIdInputs, install_path \in ExistingPaths, fix_date \in Dates \cup {""} :
       ToInt(inp).ok /\ f_starts = 0 /\ unfix_game(inp, install_path, fix_date)
  \/ UnfixStep

WorkersSpec == WorkersInit /\ [][WorkersNext]_vars

\* the threads of the two workers run, and every call they make returns or
\* raises
WorkersFairSpec == WorkersSpec /\ WF_vars(FixStep) /\ WF_vars(UnfixStep)

NoWorkerRuns == f_pc \in {"idle", "end"} /\ u_pc \in {"idle", "end"}

RequestsNext ==
  \/ \E inp \in AppIdInputs, download_url \in {"", "U"}, install_path \in InstallPaths :
       /\ NoWorkerRuns
       /\ apply_reply(inp, download_url, install_path) = Success => f_starts = 0
       /\ apply_game_fix(inp, download_url, install_path)
  \/ F_start \/ F_request \/ F_open \/ F_chunk \/ F_write \/ F_recheck
  \/ F_extracting \/ F_zip \/ F_check_start \/ F_member \/ F_check_member
  \/ F_check_end \/ F_log_read \/ F_log_write \/ F_set_done \/ F_rm_zip
  \/ F_on_failed
  \/ \E inp \in AppIdInputs, install_path \in InstallPaths, fix_date \in {"", "D1"} :
       NoWorkerRuns /\ unfix_game(inp, install_path, fix_date)
  \/ UnfixStep

RequestsSpec == WorkersInit /\ [][RequestsNext]_vars

\* the arguments of a call of apply_game_fix that the claim has rejected
ApplyInvalid(call) ==
  \/ ~ToInt(call.appid).ok
  \/ call.download_url = ""
  \/ call.install_path = ""
  \/ call.install_path \notin ExistingPaths

\* the arguments of a call of unfix_game that the claim has rejected: the
\* install path is not given and not found, or does not exist
UnfixInvalid(call) ==
  \/ ~ToInt(call.appid).ok
  \/ call.resolved_path = ""
  \/ call.resolved_path \notin ExistingPaths

\* C22: a call of apply_game_fix with a non-numeric id, an empty URL or
\* path, or a path that does not exist returns a failure, starts no worker
\* and changes no status record; so does a call of unfix_game with a
\* non-numeric id or a path that is not found or does not exist.
C22_RejectedRequests ==
  [][last_call' # last_call =>
       /\ (last_call'.handler = "apply_game_fix" /\ ApplyInvalid(last_call')) =>
            /\ ~last_call'.reply.success
            /\ UNCHANGED <<fixers, unfixers, install>>
       /\ (last_call'.handler = "unfix_game" /\ UnfixInvalid(last_call')) =>
            /\ ~last_call'.reply.success
            /\ UNCHANGED <<fixers, unfixers, install>>]_vars

\* apply-fix for a missing install path was rejected after a fix of the
\* id had ended done, and unfix likewise had ended
C22_Witness ==
  /\ last_call.handler = "apply_game_fix"
  /\ last_call.install_path = "gone"
  /\ last_call.reply = [success |-> FALSE, error |-> "Install path does not exist"]
  /\ FixStatus(LogApp) = "done"
  /\ f_pc = "end"
  /\ u_pc = "end"

\* C23: the removal step of unfix removes files of the delete set only and
\* counts the files it removed; when no removal raises these are the files
\* of the delete set that existed, a missing one being passed over; from
\* the removal on the worker ends in no other way than done, with that
\* count as filesRemoved.
C23_UnfixCount ==
  [][/\ UnfixMoves("remove", "rewrite") =>
          LET removed == install_files \ install_files' IN
          /\ install_files' \subseteq install_files
          /\ removed \subseteq uk.files_to_delete
          /\ uk'.deleted_count = Cardinality(removed)
          /\ ~uk'.raised => removed = uk.files_to_delete \cap install_files
     /\ (u_pc \in {"removing", "remove", "rewrite", "set_done"} /\ u_pc' = "end") =>
          /\ DictGet(UNFIX_STATE'[uk.appid], "status", NoneVal) = "done"
          /\ DictGet(UNFIX_STATE'[uk.appid], "filesRemoved", NoneVal) = uk.deleted_count
          /\ UNCHANGED <<uk, install_files>>]_vars

\* unfix of the legacy log that lists b.dll and a.dll ended done with a
\* count of one: a.dll was missing and no removal raised
C23_Witness ==
  /\ u_pc = "end"
  /\ DictGet(UNFIX_STATE[LogApp], "status", NoneVal) = "done"
  /\ DictGet(UNFIX_STATE[LogApp], "filesRemoved", NoneVal) = 1
  /\ uk.files_to_delete = {PathLine("a.dll"), PathLine("b.dll")}
  /\ ~uk.raised
  /\ install_files = {PathLine("c.dll"), PathLine("game.exe")}

(***************************************************************************)
(* _process_and_install_lua on an archive, called directly and without a   *)
(* cancellation: the choice of the entry and the transform of its text.    *)
(* A text is the sequence of its characters; "S" stands for the characters *)
(* setManifestid( and "\n" for a line break.  An entry name is the         *)
(* sequence of its path components, a component the sequence of its        *)
(* characters, "lua" standing for the three letters of the extension.      *)
(***************************************************************************)
MaxTextLen == 4
MaxEntries == 2

Chars == {" ", "-", "S", "x", "\n"}
Whitespace == {" ", "\n"}

LuaTexts == UNION {[1..n -> Chars] : n \in 0..MaxTextLen}

\* text.splitlines(True), line 416
RECURSIVE SplitLines(_)
SplitLines(text) ==
  IF text = <<>> THEN <<>>
  ELSE LET breaks == {i \in 1..Len(text) : text[i] = "\n"}
           n == IF breaks = {} THEN Len(text)
                ELSE CHOOSE i \in breaks : \A j \in breaks : i <= j
       IN <<SubSeq(text, 1, n)>> \o SplitLines(SubSeq(text, n + 1, Len(text)))

\* "".join(processed_lines), line 420
RECURSIVE JoinLines(_)
JoinLines(lines) ==
  IF lines = <<>> THEN <<>> ELSE Head(lines) \o JoinLines(Tail(lines))

\* the lengths of the prefixes of the line that \s* can match
SpaceRuns(line) ==
  {k \in 0..Len(line) : \A i \in 1..k : line[i] \in Whitespace}

\* re.match(r"^\s*setManifestid\(", line), line 417, matching at the start
\* of every line
MatchesDirective_anywhere(line) == \E i \in 1..Len(line) : line[i] = "S"

\* re.match(r"^\s*setManifestid\(", line), line 417
MatchesDirective(line) ==
  \E k \in SpaceRuns(line) : Len(line) > k /\ line[k + 1] = "S"

\* re.match(r"^\s*--", line), line 417
MatchesComment(line) ==
  \E k \in SpaceRuns(line) :
    Len(line) > k + 1 /\ line[k + 1] = "-" /\ line[k + 2] = "-"

\* re.sub(r"^(\s*)", r"\1--", line), line 418: \s* takes the longest run
SubMarker(line) ==
  LET k == CHOOSE m \in SpaceRuns(line) : \A j \in SpaceRuns(line) : j <= m
  IN SubSeq(line, 1, k) \o <<"-", "-">> \o SubSeq(line, k + 1, Len(line))

\* lines 415-419, the loop
RECURSIVE ProcessLines(_)
ProcessLines(lines) ==
  IF lines = <<>> THEN <<>>
  ELSE LET line == Head(lines)
       IN <<IF MatchesDirective(line) /\ ~MatchesComment(line)
            THEN SubMarker(line) ELSE line>> \o ProcessLines(Tail(lines))

\* lines 415-420
ProcessText(text) == JoinLines(ProcessLines(SplitLines(text)))

LuaBase(digits) == digits \o <<".", "lua">>

EntryNames ==
  {<<LuaBase(<<"1">>)>>, <<LuaBase(<<"2">>)>>, <<LuaBase(<<"0", "1">>)>>,
   <<<<"d">>, LuaBase(<<"1">>)>>, <<<<"x", ".", "lua">>>>,
   <<<<"d">>, <<>>>>}

Archives ==
  {names \in UNION {[1..n -> EntryNames] : n \in 0..MaxEntries} :
     \A i, j \in 1..Len(names) : names[i] = names[j] => i = j}

\* os.path.basename(name), lines 391 and 401
Basename(name) == name[Len(name)]

\* re.fullmatch(r"\d+\.lua", pure), line 392
IsNumericLua(pure) ==
  /\ Len(pure) >= 3
  /\ pure[Len(pure)] = "lua"
  /\ pure[Len(pure) - 1] = "."
  /\ IsDigits(SubSeq(pure, 1, Len(pure) - 2))

\* lines 389-393
RECURSIVE Candidates(_)
Candidates(names) ==
  IF names = <<>> THEN <<>>
  ELSE (IF IsNumericLua(Basename(Head(names))) THEN <<Head(names)>> ELSE <<>>)
         \o Candidates(Tail(names))

\* str(appid) of f"{appid}.lua", line 399
RECURSIVE Decimal(_)
Decimal(n) ==
  IF n < 0 THEN <<"-">> \o Decimal(0 - n)
  ELSE IF n < 10 THEN <<CHOOSE c \in Digits : DigitVal(c) = n>>
       ELSE Decimal(n \div 10) \o Decimal(n % 10)

\* lines 400-403: the first candidate whose base name is the preferred one
RECURSIVE FirstPreferred(_, _)
FirstPreferred(candidates, preferred) ==
  IF candidates = <<>> THEN NoneVal
  ELSE IF Basename(Head(candidates)) = preferred THEN Head(candidates)
       ELSE FirstPreferred(Tail(candidates), preferred)

\* a choice that takes the first candidate whatever its digits
ChooseLua_first(names, appid) ==
  IF Candidates(names) = <<>> THEN NoneVal ELSE Candidates(names)[1]

\* lines 398-405: chosen
ChooseLua(names, appid) ==
  LET candidates == Candidates(names)
      chosen == FirstPreferred(candidates, LuaBase(Decimal(appid)))
  IN IF chosen = NoneVal /\ candidates # <<>> THEN candidates[1] ELSE chosen

NoNumericLua == "No numeric .lua file found in zip"

LuaCalled == last_call.handler = "_process_and_install_lua"

lua_frame ==
  <<api_json, loaded_apps, pc, wk, history, canceller, starts, rosters,
    install, fixers, unfixers, stores>>

\* _process_and_install_lua(appid, zip_path), lines 356-455, on the archive
\* with these entry names whose chosen entry holds this text; no
\* cancellation is pending and opening, reading and writing succeed
_process_and_install_lua(appid, names, text, run) ==
  LET chosen == ChooseLua(names, appid) IN
  IF chosen = NoneVal
  THEN /\ last_call' = [handler |-> "_process_and_install_lua", run |-> run,
                        appid |-> appid, names |-> names, text |-> text,
                        chosen |-> <<>>, dest_file |-> <<>>, written |-> <<>>,
                        raised |-> NoNumericLua]
       /\ UNCHANGED <<lua_frame, DOWNLOAD_STATE, temp_zip, lua_file>>
  ELSE /\ last_call' = [handler |-> "_process_and_install_lua", run |-> run,
                        appid |-> appid, names |-> names, text |-> text,
                        chosen |-> chosen, dest_file |-> LuaPath(appid),
                        written |-> ProcessText(text), raised |-> NoneVal]
       /\ _set_download_state(appid, [status |-> "installing",
                                      installedPath |-> LuaPath(appid)])
       /\ lua_file' = [lua_file EXCEPT ![appid] = "zip"]
       /\ temp_zip' = [temp_zip EXCEPT ![appid] = NoFile]
       /\ UNCHANGED lua_frame

\* the first installation from a downloaded archive
LuaInstall ==
  /\ ~LuaCalled
  /\ \E appid \in AppIds, names \in Archives, text \in LuaTexts :
       /\ temp_zip[appid].exists
       /\ _process_and_install_lua(appid, names, text, 1)

\* the installed text comes back as the chosen entry of a later archive
LuaReinstall ==
  /\ LuaCalled
  /\ last_call.run = 1
  /\ last_call.raised = NoneVal
  /\ _process_and_install_lua(last_call.appid, <<last_call.chosen>>,
                              last_call.written, 2)

LuaInit ==
  /\ api_json = ApiJson(1)
  /\ DOWNLOAD_STATE = [a \in AppIds |-> [status |-> "processing"]]
  /\ temp_zip = [a \in AppIds |-> [exists |-> TRUE, data |-> ZipLocal]]
  /\ lua_file = [a \in AppIds |-> "absent"]
  /\ loaded_apps = <<>>
  /\ pc = [w \in 1..NumWorkers |-> "idle"]
  /\ wk = [w \in 1..NumWorkers |-> NewFrame(0)]
  /\ w_tried = [w \in 1..NumWorkers |-> <<>>]
  /\ w_cancel = [w \in 1..NumWorkers |-> "none"]
  /\ w_wrote = [w \in 1..NumWorkers |-> FALSE]
  /\ c_pc = "idle"
  /\ c_appid = 0
  /\ c_fresh = FALSE
  /\ starts = 0
  /\ RostersIdle
  /\ NoFixInstalled
  /\ FixersIdle
  /\ UnfixersIdle
  /\ NoRequest
  /\ StoresIdle

LuaNext == LuaInstall \/ LuaReinstall

LuaSpec == LuaInit /\ [][LuaNext]_vars

\* the first character of the line that is no whitespace, or one past its end
FirstInk(line) ==
  CHOOSE k \in 1..(Len(line) + 1) :
    /\ \A i \in 1..(k - 1) : line[i] \in Whitespace
    /\ k <= Len(line) => line[k] \notin Whitespace

StartsWith(line, k, word) ==
  /\ Len(line) >= k + Len(word) - 1
  /\ SubSeq(line, k, k + Len(word) - 1) = word

IsCommentedLine(line) == StartsWith(line, FirstInk(line), <<"-", "-">>)
IsDirectiveLine(line) == StartsWith(line, FirstInk(line), <<"S">>)

\* the line without the two characters that follow its leading whitespace
WithoutMarker(line) ==
  SubSeq(line, 1, FirstInk(line) - 1) \o SubSeq(line, FirstInk(line) + 2, Len(line))

\* C24: the installed text has the lines of the entry, where a line that
\* starts (after whitespace) with a comment marker is unchanged, a line
\* that starts with the directive has gained one marker in front of the
\* directive, and every other line is unchanged; a text that is the output
\* of the transform is installed unchanged.
C24_TransformIdempotent ==
  (LuaCalled /\ last_call.raised = NoneVal) =>
    LET before == SplitLines(last_call.text)
        after == SplitLines(last_call.written)
    IN /\ Len(after) = Len(before)
       /\ \A i \in 1..Len(before) :
            IF IsDirectiveLine(before[i])
            THEN /\ IsCommentedLine(after[i])
                 /\ WithoutMarker(after[i]) = before[i]
                 /\ ~IsCommentedLine(WithoutMarker(after[i]))
            ELSE after[i] = before[i]
       /\ last_call.run = 2 => last_call.written = last_call.text

\* the second run got the directive line that the first run had commented
\* and left it as it was
C24_Witness ==
  /\ LuaCalled
  /\ last_call.run = 2
  /\ last_call.text = <<"-", "-", "S", "\n">>
  /\ last_call.written = last_call.text

\* the positions of the entries of the archive that are candidates
CandidateAt(names) ==
  {i \in 1..Len(names) : IsNumericLua(Basename(names[i]))}

PreferredAt(names, appid) ==
  {i \in CandidateAt(names) :
     SubSeq(Basename(names[i]), 1, Len(Basename(names[i])) - 2) = Decimal(appid)}

Lowest(S) == CHOOSE i \in S : \A j \in S : i <= j

\* C29: with no entry named <digits>.lua the installation raises the
\* no-matching-entry error and writes no lua file; otherwise it takes the
\* first entry whose digits are the id, or failing that the first
\* candidate, and writes it as <id>.lua.
C29_LuaChoice ==
  LuaCalled =>
    LET names == last_call.names
        appid == last_call.appid
    IN IF CandidateAt(names) = {}
       THEN /\ last_call.raised = NoNumericLua
            /\ lua_file[appid] = "absent"
            /\ "installedPath" \notin DOMAIN DOWNLOAD_STATE[appid]
       ELSE /\ last_call.raised = NoneVal
            /\ last_call.chosen =
                 names[IF PreferredAt(names, appid) # {}
                       THEN Lowest(PreferredAt(names, appid))
                       ELSE Lowest(CandidateAt(names))]
            /\ last_call.dest_file = <<"stplug-in", appid>>
            /\ lua_file[appid] = "zip"

\* the archive holds 2.lua before d/1.lua and the id is 1: d/1.lua is taken
C29_Witness ==
  /\ LuaCalled
  /\ last_call.appid = 1
  /\ last_call.names = <<<<LuaBase(<<"2">>)>>, <<<<"d">>, LuaBase(<<"1">>)>>>>
  /\ last_call.chosen = <<<<"d">>, LuaBase(<<"1">>)>>
  /\ lua_file[1] = "zip"

(***************************************************************************)
(* The status map of downloads.py used directly by two threads: one that   *)
(* merges updates with _set_download_state, one that polls with            *)
(* _get_download_state and owns what it got.  The map starts empty (line   *)
(* 30); an id without a record is an id outside its domain.  The maps of   *)
(* fixes.py (lines 18-45) have the same code line for line.                *)
(***************************************************************************)
MaxMerges == 2
MaxPolls == 2

StoreUpdates ==
  {[status |-> "queued", bytesRead |-> 0],
   [status |-> "downloading", bytesRead |-> 1],
   [status |-> "done", success |-> TRUE]}

store_frame ==
  <<api_json, temp_zip, lua_file, loaded_apps, pc, wk, history, canceller,
    starts, rosters, install, fixers, unfixers, last_call>>

\* DOWNLOAD_STATE.get(appid, {})
StoreRecord(appid) ==
  IF appid \in DOMAIN DOWNLOAD_STATE THEN DOWNLOAD_STATE[appid] ELSE EmptyDict

\* _set_download_state lines 51-52: the lock is taken and state is the
\* record of the map, or a new dict when there is none or an empty one
S_acquire(appid, update) ==
  /\ setter.pc = "idle"
  /\ setter.merges < MaxMerges
  /\ DOWNLOAD_LOCK = "free"
  /\ DOWNLOAD_LOCK' = "setter"
  /\ setter' = [pc |-> "update", merges |-> setter.merges, appid |-> appid,
                update |-> update, todo |-> DOMAIN update,
                shared |-> StoreRecord(appid) # EmptyDict,
                state |-> StoreRecord(appid)]
  /\ UNCHANGED <<store_frame, DOWNLOAD_STATE, getter, merged>>

\* line 53, state.update(update), one key at a time: a state that is the
\* record of the map changes in the map, and in a dict that is the same
\* object
S_update ==
  /\ setter.pc = "update"
  /\ IF setter.todo = {}
     THEN /\ setter' = [setter EXCEPT !.pc = "store"]
          /\ UNCHANGED <<DOWNLOAD_STATE, getter>>
     ELSE \E k \in setter.todo :
            LET state == DictUpdate(setter.state, [x \in {k} |-> setter.update[k]])
                same == /\ setter.shared
                        /\ getter.polls > 0
                        /\ getter.shared
                        /\ getter.appid = setter.appid
            IN /\ setter' = [setter EXCEPT !.state = state, !.todo = @ \ {k}]
               /\ DOWNLOAD_STATE' =
                    IF setter.shared
                    THEN [DOWNLOAD_STATE EXCEPT ![setter.appid] = state]
                    ELSE DOWNLOAD_STATE
               /\ getter' = IF same THEN [getter EXCEPT !.state = state] ELSE getter
  /\ UNCHANGED <<store_frame, DOWNLOAD_LOCK, merged>>

\* line 54 and the end of the with block
S_store ==
  /\ setter.pc = "store"
  /\ DOWNLOAD_STATE' =
       DictUpdate(DOWNLOAD_STATE, [a \in {setter.appid} |-> setter.state])
  /\ merged' = DOWNLOAD_STATE'
  /\ DOWNLOAD_LOCK' = "free"
  /\ setter' = [pc |-> "idle", merges |-> setter.merges + 1]
  /\ UNCHANGED <<store_frame, getter>>

\* a read that hands out the record of the map itself
G_get_shared(appid) ==
  /\ getter.polls < MaxPolls
  /\ DOWNLOAD_LOCK = "free"
  /\ getter' = [polls |-> getter.polls + 1, appid |-> appid,
                state |-> StoreRecord(appid),
                shared |-> appid \in DOMAIN DOWNLOAD_STATE]
  /\ UNCHANGED <<store_frame, DOWNLOAD_STATE, DOWNLOAD_LOCK, setter, merged>>

\* _get_download_state(appid), lines 57-59: under the lock, a copy of the
\* record or of a new empty dict
G_get(appid) ==
  /\ getter.polls < MaxPolls
  /\ DOWNLOAD_LOCK = "free"
  /\ getter' = [polls |-> getter.polls + 1, appid |-> appid,
                state |-> StoreRecord(appid), shared |-> FALSE]
  /\ UNCHANGED <<store_frame, DOWNLOAD_STATE, DOWNLOAD_LOCK, setter, merged>>

\* the caller changes the dict it got; a dict that is the record of the map
\* changes in the map
G_change ==
  /\ getter.polls > 0
  /\ LET state == DictUpdate(getter.state, [status |-> "seen"])
     IN /\ getter' = [getter EXCEPT !.state = state]
        /\ IF getter.shared
           THEN /\ DOWNLOAD_STATE' = [DOWNLOAD_STATE EXCEPT ![getter.appid] = state]
                /\ setter' = IF /\ setter.pc # "idle"
                                /\ setter.shared
                                /\ setter.appid = getter.appid
                             THEN [setter EXCEPT !.state = state] ELSE setter
           ELSE UNCHANGED <<DOWNLOAD_STATE, setter>>
  /\ UNCHANGED <<store_frame, DOWNLOAD_LOCK, merged>>

StoreInit ==
  /\ api_json = ApiJson(1)
  /\ DOWNLOAD_STATE = EmptyDict
  /\ temp_zip = [a \in AppIds |-> NoFile]
  /\ lua_file = [a \in AppIds |-> "absent"]
  /\ loaded_apps = <<>>
  /\ pc = [w \in 1..NumWorkers |-> "idle"]
  /\ wk = [w \in 1..NumWorkers |-> NewFrame(0)]
  /\ w_tried = [w \in 1..NumWorkers |-> <<>>]
  /\ w_cancel = [w \in 1..NumWorkers |-> "none"]
  /\ w_wrote = [w \in 1..NumWorkers |-> FALSE]
  /\ c_pc = "idle"
  /\ c_appid = 0
  /\ c_fresh = FALSE
  /\ starts = 0
  /\ RostersIdle
  /\ NoFixInstalled
  /\ FixersIdle
  /\ UnfixersIdle
  /\ NoRequest
  /\ StoresIdle

StoreNext ==
  \/ \E appid \in AppIds, update \in StoreUpdates : S_acquire(appid, update)
  \/ S_update
  \/ S_store
  \/ \E appid \in AppIds : G_get(appid)
  \/ G_change

StoreSpec == StoreInit /\ [][StoreNext]_vars

\* C25: a poll leaves the map as it is, records of no id added, and gets
\* the record as the last completed merge left it, the empty status for an
\* id without a record; a change of the dict it got leaves the map as it
\* is, and a step of a merge leaves the dict as it is.
C25_SnapshotReads ==
  [][/\ getter'.polls # getter.polls =>
          /\ DOWNLOAD_STATE' = DOWNLOAD_STATE
          /\ getter'.state =
               IF getter'.appid \in DOMAIN merged
               THEN merged[getter'.appid] ELSE EmptyDict
     /\ (getter'.polls = getter.polls /\ getter' # getter /\ setter' = setter) =>
          DOWNLOAD_STATE' = DOWNLOAD_STATE
     /\ setter' # setter => getter' = getter]_vars

\* a poll between two merges of the id got the first merge; the caller
\* changed it and the map holds the second merge
C25_Witness ==
  /\ getter.polls = 1
  /\ getter.appid = 1
  /\ getter.state = [status |-> "seen", bytesRead |-> 0]
  /\ setter = [pc |-> "idle", merges |-> 2]
  /\ DOWNLOAD_STATE = [a \in {1} |-> [status |-> "downloading", bytesRead |-> 1]]

(***************************************************************************)
(* _append_loaded_app and _remove_loaded_app called one after the other on *)
(* the roster file they build.  Here a line of the file is the pair of the *)
(* appid and the name of f"{appid}:{name}"; a line starts with the prefix  *)
(* f"{appid}:" exactly when its first part is the appid.                   *)
(***************************************************************************)
MaxRosterIds == 3

NamedApps == 1..MaxRosterIds
AppNames == {"A", "B"}

\* [line for line in lines if not line.startswith(prefix)], lines 136 and 152
RECURSIVE NotOfApp(_, _)
NotOfApp(lines, appid) ==
  IF lines = <<>> THEN <<>>
  ELSE (IF Head(lines)[1] = appid THEN <<>> ELSE <<Head(lines)>>)
         \o NotOfApp(Tail(lines), appid)

upsert_frame ==
  <<api_json, DOWNLOAD_STATE, temp_zip, lua_file, pc, wk, history, canceller,
    starts, rosters, install, fixers, unfixers, stores>>

\* an append that keeps the lines of the appid
AppendLoadedApp_keeping(appid, name) ==
  /\ last_call' = [handler |-> "_append_loaded_app", appid |-> appid,
                   name |-> name, before |-> loaded_apps, raised |-> FALSE]
  /\ loaded_apps' = Append(loaded_apps, <<appid, name>>)
  /\ UNCHANGED upsert_frame

\* _append_loaded_app(appid, name), lines 128-141: the file is rewritten
\* with the lines of other appids and the new line, or opening it raises
AppendLoadedApp(appid, name) ==
  /\ \/ /\ last_call' = [handler |-> "_append_loaded_app", appid |-> appid,
                         name |-> name, before |-> loaded_apps, raised |-> FALSE]
        /\ loaded_apps' = Append(NotOfApp(loaded_apps, appid), <<appid, name>>)
     \/ /\ last_call' = [handler |-> "_append_loaded_app", appid |-> appid,
                         name |-> name, before |-> loaded_apps, raised |-> TRUE]
        /\ UNCHANGED loaded_apps
  /\ UNCHANGED upsert_frame

\* _remove_loaded_app(appid), lines 144-157: the file is rewritten when it
\* holds a line of the appid, or opening it raises
RemoveLoadedApp(appid) ==
  /\ \/ /\ last_call' = [handler |-> "_remove_loaded_app", appid |-> appid,
                         name |-> "", before |-> loaded_apps, raised |-> FALSE]
        /\ loaded_apps' =
             IF Len(NotOfApp(loaded_apps, appid)) # Len(loaded_apps)
             THEN NotOfApp(loaded_apps, appid) ELSE loaded_apps
     \/ /\ last_call' = [handler |-> "_remove_loaded_app", appid |-> appid,
                         name |-> "", before |-> loaded_apps, raised |-> TRUE]
        /\ UNCHANGED loaded_apps
  /\ UNCHANGED upsert_frame

UpsertInit ==
  /\ api_json = ApiJson(1)
  /\ DOWNLOAD_STATE = [a \in AppIds |-> EmptyDict]
  /\ temp_zip = [a \in AppIds |-> NoFile]
  /\ lua_file = [a \in AppIds |-> "absent"]
  /\ loaded_apps = <<>>
  /\ pc = [w \in 1..NumWorkers |-> "idle"]
  /\ wk = [w \in 1..NumWorkers |-> NewFrame(0)]
  /\ w_tried = [w \in 1..NumWorkers |-> <<>>]
  /\ w_cancel = [w \in 1..NumWorkers |-> "none"]
  /\ w_wrote = [w \in 1..NumWorkers |-> FALSE]
  /\ c_pc = "idle"
  /\ c_appid = 0
  /\ c_fresh = FALSE
  /\ starts = 0
  /\ RostersIdle
  /\ NoFixInstalled
  /\ FixersIdle
  /\ UnfixersIdle
  /\ NoRequest
  /\ StoresIdle

UpsertNext ==
  \/ \E appid \in NamedApps, name \in AppNames : AppendLoadedApp(appid, name)
  \/ \E appid \in NamedApps : RemoveLoadedApp(appid)

UpsertSpec == UpsertInit /\ [][UpsertNext]_vars

\* the positions of the lines of the appid
LinesOfApp(lines, appid) == {k \in 1..Len(lines) : lines[k][1] = appid}

\* the lines of the other appids, in their order
OtherLines(lines, appid) ==
  LET Other(line) == line[1] # appid IN SelectSeq(lines, Other)

\* C26: after _append_loaded_app(appid, name) that did not raise the roster
\* holds one line of the appid, which carries the name, and the lines of
\* the other appids as before and in their order; after _remove_loaded_app
\* that did not raise it holds no line of the appid and the lines of the
\* other appids as before.
C26_RosterUpsert ==
  (last_call.handler \in {"_append_loaded_app", "_remove_loaded_app"}
     /\ ~last_call.raised) =>
    /\ OtherLines(loaded_apps, last_call.appid)
         = OtherLines(last_call.before, last_call.appid)
    /\ last_call.handler = "_append_loaded_app" =>
         /\ Cardinality(LinesOfApp(loaded_apps, last_call.appid)) = 1
         /\ \A k \in LinesOfApp(loaded_apps, last_call.appid) :
              loaded_apps[k] = <<last_call.appid, last_call.name>>
    /\ last_call.handler = "_remove_loaded_app" =>
         LinesOfApp(loaded_apps, last_call.appid) = {}

\* appid 1, recorded before appid 2 under the name A, was recorded again
\* under the name B
C26_Witness ==
  /\ last_call.handler = "_append_loaded_app"
  /\ ~last_call.raised
  /\ last_call.before = <<<<1, "A">>, <<2, "A">>>>
  /\ loaded_apps = <<<<2, "A">>, <<1, "B">>>>

\* C28: once a download worker has returned, the temporary archive of its
\* appid does not exist.
C28_NoTempArchiveLeft ==
  \A w \in Workers : pc[w] = "end" => ~temp_zip[wk[w].appid].exists

\* the changes between statuses that are not terminal, as the worker makes them
StatusOrder ==
  {<<"queued", "checking">>, <<"checking", "downloading">>,
   <<"downloading", "checking">>, <<"downloading", "processing">>,
   <<"processing", "installing">>, <<"checking", "installing">>,
   <<"downloading", "installing">>}

\* no other worker runs for the appid of worker w
Alone(w) ==
  \A v \in Workers \ {w} :
    pc[v] \notin {"idle", "end"} => wk[v].appid # wk[w].appid

\* C27: a step of a running worker changes the status of its appid to
\* downloading only with the answer of the source it has just asked, which
\* carries the success code of that source; to processing only when the
\* stream has ended and the signature check has passed; to installing only
\* at the line it reaches after it wrote processing, or in the placeholder
\* fallback; to checking only at the
\* head of the loop, once for each source, whose name the write carries and
\* to which the request then goes; and while no other run of the appid is
\* under way the statuses that are not terminal follow each other in no
\* other order.
C27_StatusOrder ==
  [][\A w \in Workers :
       LET a == wk[w].appid IN
       (pc[w] \notin {"idle", "end"} /\ pc'[w] # pc[w]) =>
         /\ (Status(a)' # Status(a) /\ Status(a)' \notin Terminal) =>
              /\ Status(a)' = "downloading" =>
                   /\ pc[w] = "request"
                   /\ w_tried'[w] = Append(w_tried[w], wk[w].i)
                   /\ wk'[w].code = apis[wk[w].i].success_code
              /\ Status(a)' = "processing" =>
                   /\ wk[w].stream = <<>>
                   /\ wk[w].magic \in ZipSignatures
              /\ Status(a)' = "installing" =>
                   pc[w] \in {"lua_installing", "basic_installing"}
              /\ Status(a)' = "checking" => pc[w] \in {"load", "try"}
              /\ (Alone(w) /\ Status(a) \notin Terminal) =>
                   <<Status(a), Status(a)'>> \in StatusOrder
         /\ pc'[w] = "request" => pc[w] = "precheck"
         /\ pc'[w] = "precheck" => pc[w] = "try"
         /\ pc[w] = "try" =>
              /\ Status(a)' = "checking"
              /\ DictGet(DOWNLOAD_STATE'[a], "currentApi", NoneVal) = apis[wk[w].i].name
         /\ pc'[w] = "lua_check1" => Status(a)' = "processing"
         /\ pc'[w] = "lua_installing" => pc[w] = "lua_check2"
         /\ pc'[w] = "lua_check2" => pc[w] = "lua_check1"]_vars

\* the second source attempted gave the archive that is being installed
C27_Witness ==
  \E w \in Workers :
    /\ pc[w] = "lua_check3"
    /\ w_tried[w] = <<1, 2>>
    /\ Status(wk[w].appid) = "installing"
    /\ w_cancel[w] = "none"

(***************************************************************************)
(* The fix worker of appid 1 from line 126 on, after it has streamed one   *)
(* of several archives, with no cancel request.                            *)
(***************************************************************************)
ExtractArchives ==
  {PlainArchive, FolderArchive,
   \* 1/sub/, 1/sub/c.dll: the folder of the appid has no entry of its own
   [ok |-> TRUE, names |-> <<<<"1", "sub", "">>, <<"1", "sub", "c.dll">>>>],
   \* d/, d/a.dll, b.dll
   [ok |-> TRUE, names |-> <<<<"d", "">>, <<"d", "a.dll">>, <<"b.dll">>>>],
   \* 1/a.dll, b.dll: two top-level entries
   [ok |-> TRUE, names |-> <<<<"1", "a.dll">>, <<"b.dll">>>>],
   \* a file whose name is the appid
   [ok |-> TRUE, names |-> <<<<"1">>>>]}

ExtractInit ==
  /\ api_json = ApiJson(1)
  /\ DOWNLOAD_STATE = [a \in AppIds |-> EmptyDict]
  /\ temp_zip = [a \in AppIds |-> NoFile]
  /\ lua_file = [a \in AppIds |-> "absent"]
  /\ loaded_apps = <<>>
  /\ pc = [w \in 1..NumWorkers |-> "idle"]
  /\ wk = [w \in 1..NumWorkers |-> NewFrame(0)]
  /\ w_tried = [w \in 1..NumWorkers |-> <<>>]
  /\ w_cancel = [w \in 1..NumWorkers |-> "none"]
  /\ w_wrote = [w \in 1..NumWorkers |-> FALSE]
  /\ c_pc = "idle"
  /\ c_appid = 0
  /\ c_fresh = FALSE
  /\ starts = 0
  /\ RostersIdle
  /\ UnfixersIdle
  /\ StoresIdle
  /\ last_call = [handler |-> "apply_game_fix", appid |-> <<"1">>,
                  download_url |-> "U",
                  install_path |-> CHOOSE path \in ExistingPaths : TRUE,
                  reply |-> Success]
  /\ FIX_DOWNLOAD_STATE =
       [a \in AppIds |->
          IF a = LogApp
          THEN [status |-> "downloading", bytesRead |-> 2, totalBytes |-> 0,
                error |-> NoneVal]
          ELSE EmptyDict]
  /\ fix_zip = [a \in AppIds |->
                  IF a = LogApp THEN [exists |-> TRUE, data |-> <<1, 1>>] ELSE NoFile]
  /\ f_pc = "extracting"
  /\ \E archive \in ExtractArchives :
       fk = [NewFixFrame(LogApp) EXCEPT !.archive = archive, !.bytesRead = 2]
  /\ fc_pc = "idle"
  /\ fc_appid = 0
  /\ f_starts = 1
  /\ f_cancel = [a \in AppIds |-> "none"]
  /\ \E file \in FixInitLogs :
       fix_log = [a \in AppIds |-> IF a = LogApp THEN file ELSE NoFile]
  /\ install_files = {PathLine("game.exe")}

ExtractNext ==
  \/ F_extracting \/ F_zip \/ F_check_start \/ F_member \/ F_check_member
  \/ F_check_end \/ F_log_read \/ F_log_write \/ F_set_done \/ F_rm_zip
  \/ F_on_failed

ExtractSpec == ExtractInit /\ [][ExtractNext]_vars

\* the path of a member as the log lists it
MemberLine(parts) == PathLine(IF parts = <<>> THEN "" ELSE JoinPath(parts))

\* the files of the archive that are no directory entries, each under its
\* own path, or without its first part, in archive order
RECURSIVE FilesOfArchive(_, _)
FilesOfArchive(names, stripped) ==
  IF names = <<>> THEN <<>>
  ELSE (IF IsDirEntry(Head(names)) THEN <<>>
        ELSE <<MemberLine(IF stripped THEN Tail(Head(names)) ELSE Head(names))>>)
         \o FilesOfArchive(Tail(names), stripped)

\* C30: when the loop over the members has ended, the recorded list is the
\* list of the members that are no directory entries, in archive order,
\* without their first part when the top-level entries of the archive are
\* the name of the appid alone, and these are the files that were written.
C30_ExtractedAsListed ==
  f_pc = "check_end" =>
    LET names == fk.archive.names
        listed == FilesOfArchive(names, TopLevelEntries(names) = {AppidStr(fk.appid)})
    IN /\ fk.extracted_files = listed
       /\ install_files = {PathLine("game.exe")} \cup Range(listed)

(***************************************************************************)
(* bytesRead while one worker streams a source.                            *)
(***************************************************************************)
\* no other worker thread has run so far (a second thread is taken only
\* while the first one is running)
Single(w) == \A v \in Workers \ {w} : pc[v] = "idle"

\* the bytesRead of the status dict of an appid
BytesRead(a) == DictGet(DOWNLOAD_STATE[a], "bytesRead", 0)

\* the number of bytes in the temporary file of an appid
Written(a) == Len(temp_zip[a].data)

\* the positions of a source attempt from the loop head to the open
Attempting == {"precheck", "request", "open"}

\* the positions inside "with open(dest_path, 'wb')", lines 547-560
Streaming == {"stream", "chunk_write", "chunk_set", "chunk_recheck"}

\* C31 as stated: wherever a single worker is in the attempt of a source,
\* bytesRead equals the number of bytes the attempt has written to the
\* temporary file
C31_BytesReadIsWritten ==
  \A w \in Workers :
    (Single(w) /\ pc[w] \in Streaming) => BytesRead(wk[w].appid) = Written(wk[w].appid)

\* C31 (amended): while a single worker attempts a source, bytesRead is 0
\* from the loop head until the file is opened, equals the number of bytes
\* written to the temporary file at every position of the stream except
\* between the write of a chunk and the update of the counter, where it is
\* behind by exactly the length of that chunk; the write of a chunk adds the
\* chunk and leaves the counter, the update makes the counter the number of
\* bytes written, and no step inside the attempt decreases the counter.
C31_BytesReadFollowsFile ==
  [][\A w \in Workers :
       LET a == wk[w].appid
           n == Len(wk[w].stream) - Len(wk'[w].stream)
       IN
       Single(w)' =>
         /\ pc'[w] \in Attempting => BytesRead(a)' = 0
         /\ pc'[w] \in Streaming \ {"chunk_set"} => BytesRead(a)' = Written(a)'
         /\ pc'[w] = "chunk_set" =>
              /\ Written(a)' - BytesRead(a)' \in 1..ChunkLen
              /\ wk'[w].read = Written(a)'
         /\ (pc'[w] = "chunk_set" /\ pc'[w] # pc[w]) =>
              /\ pc[w] = "chunk_write"
              /\ n \in 1..ChunkLen
              /\ Written(a)' = Written(a) + n
              /\ BytesRead(a)' = BytesRead(a)
              /\ Written(a)' = BytesRead(a)' + n
         /\ (pc[w] = "chunk_set" /\ pc'[w] # pc[w]) =>
              /\ pc'[w] = "chunk_recheck"
              /\ BytesRead(a)' = wk[w].read
              /\ Written(a)' = Written(a)
         /\ (pc[w] = "try" /\ pc'[w] # pc[w]) =>
              (pc'[w] = "precheck" /\ BytesRead(a)' = 0)
         /\ (pc[w] \in Streaming /\ pc'[w] \in Streaming) =>
              BytesRead(a)' >= BytesRead(a)]_vars

\* the last, shorter chunk of the second source is in the file and the
\* counter still shows the bytes before it
C31_Witness ==
  \E w \in Workers :
    /\ Single(w)
    /\ pc[w] = "chunk_set"
    /\ wk[w].i = 2
    /\ BytesRead(wk[w].appid) = ChunkLen
    /\ Written(wk[w].appid) = ChunkLen + 1
    /\ wk[w].stream = <<>>

(***************************************************************************)
(* Overlapping runs: two worker threads, one enabled source.               *)
(***************************************************************************)
\* the worker threads available to overlapping start requests
NumThreads == 2

OverlapInit ==
  /\ api_json = ApiJson(1)
  /\ DOWNLOAD_STATE = [a \in AppIds |-> EmptyDict]
  /\ temp_zip = [a \in AppIds |-> NoFile]
  /\ lua_file = [a \in AppIds |-> "absent"]
  /\ loaded_apps = <<>>
  /\ pc = [w \in 1..NumThreads |-> "idle"]
  /\ wk = [w \in 1..NumThreads |-> NewFrame(0)]
  /\ w_tried = [w \in 1..NumThreads |-> <<>>]
  /\ w_cancel = [w \in 1..NumThreads |-> "none"]
  /\ w_wrote = [w \in 1..NumThreads |-> FALSE]
  /\ c_pc = "idle"
  /\ c_appid = 0
  /\ c_fresh = FALSE
  /\ starts = 0
  /\ RostersIdle
  /\ NoFixInstalled
  /\ FixersIdle
  /\ UnfixersIdle
  /\ NoRequest
  /\ StoresIdle

\* a step of a worker thread while no cancel is requested
OverlapStep(w) ==
  \/ W_load(w) \/ W_try(w) \/ W_precheck(w) \/ W_request(w)
  \/ W_runtime_error(w) \/ W_open(w) \/ W_stream(w) \/ W_chunk_write(w)
  \/ W_chunk_set(w) \/ W_chunk_recheck(w)
  \/ W_validate(w) \/ W_proc_check(w) \/ W_proc_set(w) \/ W_lua_check1(w)
  \/ W_lua_check2(w) \/ W_lua_installing(w) \/ W_lua_check3(w)
  \/ W_lua_write(w) \/ W_lua_installed(w) \/ W_lua_rmzip(w)
  \/ W_post_check(w) \/ W_roster(w) \/ W_set_done(w)
  \/ W_install_failed(w) \/ W_install_failed_rm(w)
  \/ W_fallback(w) \/ W_basic_installing(w) \/ W_basic_check(w)
  \/ W_basic_write(w) \/ W_basic_installed(w) \/ W_fallback_roster(w)
  \/ W_fallback_done(w) \/ W_fallback_failed(w)

OverlapNext ==
  \/ \E inp \in AppIdInputs : start_add_via_skytools(inp)
  \/ \E w \in 1..NumThreads : OverlapStep(w)

OverlapSpec == OverlapInit /\ [][OverlapNext]_vars

\* the worker threads that run for an appid
Running(a) == {w \in Workers : Active(w) /\ wk[w].appid = a}

\* C32: while a worker of an id is running, a start request for the id is
\* not refused as long as a thread is left; every accepted start request
\* merges status queued with bytesRead 0 and totalBytes 0 into the record
\* of its id, whatever the record held, puts a new worker thread for the id
\* at the head of _download_zip_for_app, and leaves the position and the
\* locals of every other thread and the temporary file as they were, so
\* that the worker that was running is still running, on the same record
\* and the same file as the new one.
C32_StartWhileRunning ==
  [][/\ \A inp \in AppIdInputs :
          (/\ ToInt(inp).ok
           /\ Running(ToInt(inp).val) # {}
           /\ \E v \in Workers : ~Active(v)
           /\ starts < MaxStarts)
          => ENABLED start_add_via_skytools(inp)
     /\ starts' # starts =>
          LET v == FreeWorker
              a == wk'[v].appid
          IN /\ ~Active(v)
             /\ pc'[v] = "load"
             /\ wk'[v] = NewFrame(a)
             /\ DOWNLOAD_STATE'[a] =
                  DictUpdate(DOWNLOAD_STATE[a],
                             [status |-> "queued", bytesRead |-> 0, totalBytes |-> 0])
             /\ \A b \in AppIds \ {a} : DOWNLOAD_STATE'[b] = DOWNLOAD_STATE[b]
             /\ \A w \in Workers \ {v} : pc'[w] = pc[w] /\ wk'[w] = wk[w]
             /\ {w \in Workers : Active(w)' /\ wk'[w].appid = a} = Running(a) \cup {v}
             /\ UNCHANGED disk]_vars

\* two workers of one id have each written a chunk to the one temporary
\* file of the id and are about to update the one bytesRead of its record
C32_Witness ==
  \E w \in Workers, v \in Workers :
    /\ w # v
    /\ wk[w].appid = wk[v].appid
    /\ pc[w] = "chunk_set"
    /\ pc[v] = "chunk_set"
    /\ w_wrote[w] /\ w_wrote[v]
    /\ Written(wk[w].appid) > ChunkLen

(***************************************************************************)
(* The three status maps side by side: threads of several ids call         *)
(* _set_download_state (one step per access, under DOWNLOAD_LOCK),         *)
(* _set_fix_download_state and _set_unfix_state in any order.              *)
(***************************************************************************)
FixUpdates ==
  {[status |-> "downloading", bytesRead |-> 0, totalBytes |-> 0],
   [status |-> "done", success |-> TRUE]}

UnfixUpdates == {[status |-> "done", success |-> TRUE, filesRemoved |-> 0]}

SetCall(handler, appid, update) ==
  [handler |-> handler, appid |-> appid, update |-> update]

\* a thread calls _set_fix_download_state(appid, update), fixes.py 24-28
P_set_fix(appid, update) ==
  /\ _set_fix_download_state(appid, update)
  /\ last_call' = SetCall("_set_fix_download_state", appid, update)
  /\ UNCHANGED <<downloads, rosters, install, fix_zip, f_pc, fk, fc_pc,
                 fc_appid, f_starts, f_cancel, unfixers, stores>>

\* a thread calls _set_unfix_state(appid, update), fixes.py 36-40
P_set_unfix(appid, update) ==
  /\ _set_unfix_state(appid, update)
  /\ last_call' = SetCall("_set_unfix_state", appid, update)
  /\ UNCHANGED <<downloads, rosters, install, fixers, u_pc, uk, u_starts,
                 fixes_out, stores>>

PartitionNext ==
  \/ \E appid \in AppIds, update \in StoreUpdates : S_acquire(appid, update)
  \/ S_update
  \/ S_store
  \/ \E appid \in AppIds, update \in FixUpdates : P_set_fix(appid, update)
  \/ \E appid \in AppIds, update \in UnfixUpdates : P_set_unfix(appid, update)

PartitionSpec == StoreInit /\ [][PartitionNext]_vars

\* the ids whose record of a partition a step changes
DownloadChanged == {a \in AppIds : StoreRecord(a)' # StoreRecord(a)}
FixChanged == {a \in AppIds : FIX_DOWNLOAD_STATE'[a] # FIX_DOWNLOAD_STATE[a]}
UnfixChanged == {a \in AppIds : UNFIX_STATE'[a] # UNFIX_STATE[a]}

\* C33: every step of a call of one of the three setters changes the record
\* of at most one id in at most one of the three maps, and that record is
\* the one of the id of the call in the map of the setter: a step of
\* _set_download_state(appid, ...) changes at most DOWNLOAD_STATE[appid],
\* a call of _set_fix_download_state(appid, ...) at most
\* FIX_DOWNLOAD_STATE[appid], a call of _set_unfix_state(appid, ...) at most
\* UNFIX_STATE[appid], however the calls for the ids follow each other.
C33_OneRecordChanges ==
  [][/\ Cardinality(DownloadChanged) + Cardinality(FixChanged)
          + Cardinality(UnfixChanged) <= 1
     /\ DOMAIN FIX_DOWNLOAD_STATE' = DOMAIN FIX_DOWNLOAD_STATE
     /\ DOMAIN UNFIX_STATE' = DOMAIN UNFIX_STATE
     /\ DOMAIN DOWNLOAD_STATE' \ DOMAIN DOWNLOAD_STATE \subseteq DownloadChanged
     /\ DOMAIN DOWNLOAD_STATE \subseteq DOMAIN DOWNLOAD_STATE'
     /\ DownloadChanged # {} =>
          /\ setter.pc # "idle"
          /\ DownloadChanged = {setter.appid}
          /\ last_call' = last_call
     /\ FixChanged # {} =>
          /\ last_call' = SetCall("_set_fix_download_state", last_call'.appid, last_call'.update)
          /\ FixChanged = {last_call'.appid}
          /\ FIX_DOWNLOAD_STATE'[last_call'.appid] =
               DictUpdate(FIX_DOWNLOAD_STATE[last_call'.appid], last_call'.update)
          /\ setter' = setter
     /\ UnfixChanged # {} =>
          /\ last_call' = SetCall("_set_unfix_state", last_call'.appid, last_call'.update)
          /\ UnfixChanged = {last_call'.appid}
          /\ UNFIX_STATE'[last_call'.appid] =
               DictUpdate(UNFIX_STATE[last_call'.appid], last_call'.update)
          /\ setter' = setter]_vars

\* a merge into the download record of one id is between two of its keys
\* while the fix-apply record of the other id and the unfix record of the
\* same id have been written
C33_Witness ==
  /\ setter.pc = "update"
  /\ setter.shared
  /\ setter.todo # {}
  /\ setter.todo # DOMAIN setter.update
  /\ FIX_DOWNLOAD_STATE[0 - setter.appid] =
       [status |-> "done", success |-> TRUE, bytesRead |-> 0, totalBytes |-> 0]
  /\ FIX_DOWNLOAD_STATE[setter.appid] = EmptyDict
  /\ UNFIX_STATE[setter.appid] # EmptyDict
  /\ UNFIX_STATE[0 - setter.appid] = EmptyDict

(***************************************************************************)
(* The success flag of the status records.                                 *)
(***************************************************************************)
\* a record that has success true shows status done
SuccessMeansDone(state) ==
  DictGet(state, "success", FALSE) = TRUE => DictGet(state, "status", NoneVal) = "done"

\* C34: in the download, fix-apply and unfix maps the record of every id
\* has success true only together with status done.
C34_SuccessOnlyWhenDone ==
  \A a \in AppIds :
    /\ SuccessMeansDone(DOWNLOAD_STATE[a])
    /\ SuccessMeansDone(FIX_DOWNLOAD_STATE[a])
    /\ SuccessMeansDone(UNFIX_STATE[a])

(***************************************************************************)
(* What a fix worker leaves in the install directory and in the log.       *)
(***************************************************************************)
\* the files the [FIX] blocks of a log file list, as an unfix of all fixes
\* reads them
LoggedInBlocks(file) ==
  IF file.exists /\ HasFixMarker(file.data)
  THEN UnfixBlocks(SplitFix(file.data), NoneVal).files_to_delete
  ELSE {}

\* C35: once the fix worker has ended, every file it wrote into the install
\* directory is listed in a [FIX] block of the log of that directory.
C35_WrittenFilesAreLogged ==
  f_pc = "end" => Range(fk.extracted_files) \subseteq LoggedInBlocks(fix_log[fk.appid])

(***************************************************************************)
(* What a cancelled download run leaves behind.                            *)
(***************************************************************************)
\* C36: when the worker of the first run of a behaviour ends while the
\* status of its id is cancelled, stplug-in/<id>.lua has not been written
\* and the id is not in the roster, as before the start.
C36_CancelledInstallsNothing ==
  [][\A w \in Workers :
       LET a == wk[w].appid IN
       (pc[w] # "end" /\ pc'[w] = "end" /\ starts = 1 /\ Status(a)' = "cancelled") =>
         /\ lua_file'[a] = "absent"
         /\ \A k \in 1..Len(loaded_apps') : loaded_apps'[k] # a]_vars

(***************************************************************************)
(* The checkpoints of the cancellation flag.                               *)
(***************************************************************************)
\* the positions at which the worker calls _is_download_cancelled
Checkpoints ==
  {"precheck", "stream", "chunk_recheck", "proc_check", "lua_check1",
   "lua_check2", "lua_check3", "post_check", "fallback", "basic_check"}

\* the positions of the handlers that write status failed
WritesFailed == {"runtime_error", "install_failed", "fallback_failed"}

\* C37: a checkpoint that finds the status of its id cancelled never takes
\* the worker to a handler that writes failed; the worker ends, or goes to
\* a handler that leaves the status cancelled with the error of the cancel
\* request.
C37_CancelledStaysCancelled ==
  [][\A w \in Workers :
       LET a == wk[w].appid IN
       (pc[w] \in Checkpoints /\ pc'[w] # pc[w] /\ _is_download_cancelled(a)) =>
         /\ pc'[w] \notin WritesFailed
         /\ Status(a)' = "cancelled"
         /\ DictGet(DOWNLOAD_STATE'[a], "error", NoneVal) = CancelledByUser]_vars

(***************************************************************************)
(* The files an unfix by date leaves to the fixes it keeps.                *)
(***************************************************************************)
\* C38: when an unfix with a fix date has ended and has rewritten the log,
\* every file that a block of the rewritten log lists and that was in the
\* install directory before the unfix is still there.
C38_RetainedFilesKept ==
  (/\ u_pc = "end"
   /\ uk.fix_date # NoneVal
   /\ DictGet(UNFIX_STATE[uk.appid], "status", NoneVal) = "done"
   /\ ~uk.log_raised
   /\ fix_log[uk.appid].exists)
  => (LoggedInBlocks(fix_log[uk.appid]) \cap GameFiles) \subseteq install_files

(***************************************************************************)
(* A block from its write to its readers: the fix worker has extracted the *)
(* files of an archive and is about to write the log of the install        *)
(* directory, which holds nothing, one block of any kind or a legacy log;  *)
(* the listing and an unfix run in any order with it.                      *)
(***************************************************************************)
\* largest number of files of the archive
MaxFiles == 2

BlockFileNames == {"a.dll", "b.dll"}

\* the file names of an archive, no name twice
FileNameLists ==
  {s \in UNION {[1..n -> BlockFileNames] : n \in 0..MaxFiles} :
     \A j, k \in 1..Len(s) : j # k => s[j] # s[k]}

\* the logs the worker finds: none, an empty one, one block, a legacy log
BlockLogs ==
  {NoFile, LogFile(EmptyText)}
    \cup {LogFile(LogOf(<<block>>)) : block \in LogBlocks}
    \cup {LogFile(text) : text \in LegacyLogs}

BlockInit ==
  /\ api_json = ApiJson(1)
  /\ DOWNLOAD_STATE = [a \in AppIds |-> EmptyDict]
  /\ temp_zip = [a \in AppIds |-> NoFile]
  /\ lua_file = [a \in AppIds |-> "absent"]
  /\ loaded_apps = <<>>
  /\ pc = [w \in 1..NumWorkers |-> "idle"]
  /\ wk = [w \in 1..NumWorkers |-> NewFrame(0)]
  /\ w_tried = [w \in 1..NumWorkers |-> <<>>]
  /\ w_cancel = [w \in 1..NumWorkers |-> "none"]
  /\ w_wrote = [w \in 1..NumWorkers |-> FALSE]
  /\ c_pc = "idle"
  /\ c_appid = 0
  /\ c_fresh = FALSE
  /\ starts = 0
  /\ RostersIdle
  /\ UnfixersIdle
  /\ StoresIdle
  /\ last_call = [handler |-> "apply_game_fix", appid |-> <<"1">>,
                  download_url |-> "U",
                  install_path |-> CHOOSE path \in ExistingPaths : TRUE,
                  reply |-> Success]
  /\ FIX_DOWNLOAD_STATE =
       [a \in AppIds |->
          IF a = LogApp
          THEN [status |-> "extracting", bytesRead |-> 2, totalBytes |-> 0,
                error |-> NoneVal]
          ELSE EmptyDict]
  /\ fix_zip = [a \in AppIds |->
                  IF a = LogApp THEN [exists |-> TRUE, data |-> <<1, 1>>] ELSE NoFile]
  /\ f_pc = "log_read"
  /\ fc_pc = "idle"
  /\ fc_appid = 0
  /\ f_starts = 1
  /\ f_cancel = [a \in AppIds |-> "none"]
  /\ \E file \in BlockLogs :
       fix_log = [a \in AppIds |-> IF a = LogApp THEN file ELSE NoFile]
  /\ \E names \in FileNameLists :
       /\ fk = [NewFixFrame(LogApp) EXCEPT
                  !.archive = [ok |-> TRUE, names |-> [k \in 1..Len(names) |-> <<names[k]>>]],
                  !.bytesRead = 2,
                  !.extracted_files = [k \in 1..Len(names) |-> PathLine(names[k])]]
       /\ install_files = {PathLine("game.exe")} \cup {PathLine(names[k]) : k \in 1..Len(names)}

BlockNext ==
  \/ F_log_read \/ F_log_write \/ F_set_done \/ F_rm_zip
  \/ ListInstalledFixes
  \/ \E inp \in AppIdInputs, install_path \in ExistingPaths, fix_date \in Dates \cup {""} :
       ToInt(inp).ok /\ unfix_game(inp, install_path, fix_date)
  \/ U_exists \/ U_read \/ U_removing \/ U_remove \/ U_rewrite \/ U_set_done

BlockSpec == BlockInit /\ [][BlockNext]_vars

\* the log of the worker's install directory is as the worker wrote it, with
\* the entry of date d after the content it had read
HoldsBlockOf(d) ==
  /\ fk.logged
  /\ fix_log[fk.appid] =
       LogFile(AppendFix(fk.existing_content,
                         FixEntry(d, "G", "T", "U", fk.extracted_files)))

\* the record the listing is to return for the block of date d
RecordOf(d) ==
  [gameName |-> "G", date |-> d, fixType |-> "T", downloadUrl |-> "U",
   filesCount |-> Len(fk.extracted_files), files |-> fk.extracted_files]

Last(seq) == seq[Len(seq)]

\* the log that holds the block of date d reads back as the block
ReadsBack(d) ==
  LET text == fix_log[fk.appid].data
      records == get_installed_fixes(text)
      seen == UnfixBlock(Last(SplitFix(text)), d)
  IN /\ records # <<>>
     /\ Last(records) = RecordOf(d)
     /\ SubSeq(records, 1, Len(records) - 1) =
          ListBlocks(SplitFix(fk.existing_content))
     /\ seen.block_date = d
     /\ seen.files = Range(fk.extracted_files)
     /\ Range(fk.extracted_files) \subseteq ParseUnfix(text, d).files_to_delete
     /\ Range(fk.extracted_files) \subseteq ParseUnfix(text, NoneVal).files_to_delete

\* C39: while the log is as the fix worker wrote it, with the block of date
\* d, fix type, download URL and the extracted files F after whatever it
\* had read, get_installed_fixes returns for the block one record, the last,
\* with exactly d, the fix type, the URL and F in order, after the records
\* of the content read; the scan of unfix finds the block dated d with
\* exactly the files of F; a listing that runs then returns that record and
\* an unfix of d or of all fixes that reads the log then takes the files of
\* F into its delete set.
C39_BlockReadBack ==
  /\ [](\A d \in FixDates : HoldsBlockOf(d) => ReadsBack(d))
  /\ [][\A d \in FixDates :
       /\ (HoldsBlockOf(d) /\ fixes_out' # fixes_out) =>
            /\ fixes_out'.success
            /\ fixes_out'.fixes # <<>>
            /\ Last(fixes_out'.fixes) = RecordOf(d)
       /\ (HoldsBlockOf(d) /\ u_pc = "read" /\ u_pc' = "removing"
             /\ uk.appid = fk.appid /\ uk.fix_date \in {d, NoneVal}) =>
            Range(fk.extracted_files) \subseteq uk'.files_to_delete]_vars

\* the block of two files was written after an unterminated block; the
\* listing has returned it and an unfix of its date has read the log
C39_Witness ==
  /\ HoldsBlockOf("D2")
  /\ Len(fk.extracted_files) = 2
  /\ fk.existing_content = LogOf(<<LogBlock("noend", "D1", FilesOn("D1"))>>)
  /\ fixes_out.fixes # <<>>
  /\ Last(fixes_out.fixes) = RecordOf("D2")
  /\ u_pc = "removing"
  /\ uk.fix_date = "D2"
  /\ uk.files_to_delete = Range(fk.extracted_files)

(***************************************************************************)
(* The block of a fix that ended done.                                     *)
(***************************************************************************)
\* C40: when the fix worker has ended with status done and no unfix was
\* requested, the log of its install directory exists and holds a [FIX]
\* block with the files the worker extracted.
C40_DoneHasBlock ==
  (f_pc = "end" /\ FixStatus(fk.appid) = "done" /\ u_starts = 0) =>
    /\ fix_log[fk.appid].exists
    /\ HasFixMarker(fix_log[fk.appid].data)
    /\ \E k \in 1..Len(get_installed_fixes(fix_log[fk.appid].data)) :
         get_installed_fixes(fix_log[fk.appid].data)[k].files = fk.extracted_files

====
